---- MODULE Spec2Model ----
(***************************************************************************)
(* A model of the PDF redaction engine of app/services/pdf_processor.py    *)
(* (PDFProcessor: header validation, the Luhn checksum, page scanning,     *)
(* redaction, serialization, error conversion, handle release) and of the  *)
(* /process handler of app/api/file_processing.py that calls it.           *)
(*                                                                         *)
(* Strings that the code inspects character by character (file headers,    *)
(* span texts, card numbers) are sequences of one-character strings or of  *)
(* digits.  Confidences are floats: they are computed in binary64, and a   *)
(* confidence that is the double of a two-decimal literal is written in    *)
(* hundredths (95 is the double of 0.95).  An exception message that the   *)
(* code only searches for key words is the set of words it is made of.     *)
(***************************************************************************)
EXTENDS Integers, Sequences, FiniteSets, TLC

VARIABLES
    \* ---- the caller and the request --------------------------------------
    caller,            \* "direct" (a test or script calls process_pdf) or "handler"
    request_ok,        \* the request carries file_id, bucket and key
    stored,            \* what s3_service.download_file returns: a file or NoFile
    hpc,               \* the handler's position
    h_exc,             \* the exception the handler's except clause caught, or NoExc
    response,          \* the HTTP response of the handler, NoResponse before
    uploads,           \* object storage: the redacted files uploaded
    result_rows,       \* analytics database: redaction_results rows
    block_rows,        \* analytics database: redaction_blocks inserts
    metrics_rows,      \* analytics database: processing_metrics rows
    metrics_calls,     \* the rows handed to insert_metrics, stored or not
    \* ---- one call of process_pdf -----------------------------------------
    ppc,               \* process_pdf's position
    file_content,      \* the argument of process_pdf
    doc,               \* the handle: "none", "open", "closed" or "close_failed"
    open_calls,        \* how often fitz.open was called
    close_calls,       \* how often doc.close() was called
    close_raised,      \* doc.close() raised (and was logged)
    total_pages,
    page_num,          \* the scan loop's index (0-based)
    redaction_blocks,
    scan_log,          \* per page scanned so far: "ok" or "failed"
    apply_order,       \* the keys of blocks_by_page, in insertion order
    apply_idx,         \* how many of them the apply loop has handled
    apply_log,         \* per page handled by the apply loop: <<page, "ok" | "failed">>
    annots,            \* redaction annotations added to the handle, not yet applied
    redacted,          \* redaction annotations applied (content removed)
    write_outcome,     \* doc.write(): not called, the bytes it returned, or what it raised
    exc,               \* the exception in flight inside process_pdf, or NoExc
    result,            \* the dict built for return, or NoResult
    outcome,           \* what process_pdf gave its caller: NoOutcome, a result or an error
    \* ---- a call of _is_valid_credit_card ---------------------------------
    card_number,       \* the digit string passed
    luhn_pc,           \* "idle", "call" or "done"
    luhn_result,       \* the value returned
    \* ---- a call of one of the processor's other functions on its own ------
    call_fn,           \* "none", or the function called
    call_arg,          \* its argument
    call_pc,           \* "idle", "call" or "done"
    call_ret,          \* what the call gave: NoOutcome, a value or an exception
    \* ---- the PDFProcessor instance and the calls made on it ---------------
    patterns,          \* self.patterns: the categories of the pattern table, in order
    run,               \* the number of the call of process_pdf on the same bytes
    first_outcome,     \* what the first call gave its caller, once a second one began
    \* ---- calls of process_pdf running at the same time ---------------------
    calls,             \* per call: its position and its locals
    handles            \* the documents fitz has opened, in the order they were opened

storeVars == <<uploads, result_rows, block_rows, metrics_rows, metrics_calls>>
handlerVars == <<caller, request_ok, stored, hpc, h_exc, response, storeVars>>
handleVars == <<doc, open_calls, close_calls, close_raised, annots, redacted>>
scanVars == <<total_pages, page_num, redaction_blocks, scan_log>>
applyVars == <<apply_order, apply_idx, apply_log>>
endVars == <<write_outcome, exc, result, outcome>>
procVars == <<ppc, file_content, handleVars, scanVars, applyVars, endVars>>
luhnVars == <<card_number, luhn_pc, luhn_result>>
callVars == <<call_fn, call_arg, call_pc, call_ret>>
instanceVars == <<patterns>>
repeatVars == <<run, first_outcome>>
concVars == <<calls, handles>>
vars == <<handlerVars, procVars, luhnVars, callVars, instanceVars, repeatVars, concVars>>

-----------------------------------------------------------------------------
(* Bounds of the model *)

\* the longest document, in pages
MaxPages == 3
\* the longest digit string enumerated in full for the Luhn check
MaxDigits == 3

-----------------------------------------------------------------------------
(* Program constants *)

\* len(file_content) < 4
MinHeaderLen == 4
\* file_content[:20]
HeaderWindow == 20
\* checksum % 10
LuhnModulus == 10

-----------------------------------------------------------------------------
(* _is_valid_credit_card *)

Digit == 0..9

RECURSIVE SumSeq(_)
SumSeq(s) == IF s = <<>> THEN 0 ELSE Head(s) + SumSeq(Tail(s))

\* digits[start::-2] for start = -1 (back = 0) or -2 (back = 1): the digits at
\* positions Len - back, Len - back - 2, ... down to 1
RECURSIVE SliceBack(_, _)
SliceBack(digits, i) ==
    IF i < 1 THEN <<>> ELSE <<digits[i]>> \o SliceBack(digits, i - 2)

\* sum(digits_of(d * 2)): the decimal digits of the doubled digit, added
DoubledDigitSum(d) == ((d * 2) \div 10) + ((d * 2) % 10)

\* a doubling that is never reduced to its digit sum
LuhnChecksumUnreduced(digits) ==
    LET odd_digits == SliceBack(digits, Len(digits))
        even_digits == SliceBack(digits, Len(digits) - 1)
    IN  (SumSeq(odd_digits)
          + SumSeq([i \in 1..Len(even_digits) |-> even_digits[i] * 2]))
        % LuhnModulus

LuhnChecksum(digits) ==
    LET odd_digits == SliceBack(digits, Len(digits))
        even_digits == SliceBack(digits, Len(digits) - 1)
    IN  (SumSeq(odd_digits)
          + SumSeq([i \in 1..Len(even_digits) |-> DoubledDigitSum(even_digits[i])]))
        % LuhnModulus

IsValidCreditCard(digits) == LuhnChecksum(digits) = 0

-----------------------------------------------------------------------------
(* _validate_pdf_header *)

\* the ASCII bytes a header is made of here; any other byte (such as "xFF") is
\* one that decode('ascii') cannot decode
AsciiBytes == {"%", "P", "D", "F", "X", "-", ".", "0", "1", "2", "3", "4", "5",
               "6", "7", "8", "9"}

PdfSignature == <<"%", "P", "D", "F">>

VersionTokens == { <<"1", ".", "0">>, <<"1", ".", "1">>, <<"1", ".", "2">>,
                   <<"1", ".", "3">>, <<"1", ".", "4">>, <<"1", ".", "5">>,
                   <<"1", ".", "6">>, <<"1", ".", "7">>, <<"2", ".", "0">> }

Prefix(s, n) == SubSeq(s, 1, IF Len(s) < n THEN Len(s) ELSE n)

\* bytes.decode('ascii', errors='ignore'): the bytes that are not ASCII are dropped
DecodeAsciiIgnore(bytes) == SelectSeq(bytes, LAMBDA b : b \in AsciiBytes)

\* version in header_line
Contains(text, token) ==
    \E i \in 1..(Len(text) - Len(token) + 1) :
        SubSeq(text, i, i + Len(token) - 1) = token

\* a validation that looks for the version in the whole content
ValidatePdfHeaderAnywhere(bytes) ==
    IF Len(bytes) < MinHeaderLen THEN FALSE
    ELSE IF Prefix(bytes, 4) # PdfSignature THEN FALSE
    ELSE IF ~ \E v \in VersionTokens : Contains(DecodeAsciiIgnore(bytes), v)
         THEN FALSE
    ELSE TRUE

\* a validation that only looks at the length
ValidatePdfHeaderLengthOnly(bytes) == Len(bytes) >= MinHeaderLen

ValidatePdfHeader(bytes) ==
    IF Len(bytes) < MinHeaderLen THEN FALSE
    ELSE IF Prefix(bytes, 4) # PdfSignature THEN FALSE
    ELSE IF ~ \E v \in VersionTokens :
                 Contains(DecodeAsciiIgnore(Prefix(bytes, HeaderWindow)), v)
         THEN FALSE
    ELSE TRUE

-----------------------------------------------------------------------------
(* The pattern table of PDFProcessor.__init__, as matchers over character   *)
(* sequences.  Each MatchXAt(text, pos) is the position just after the     *)
(* match of pattern X that starts at pos (what re finds there: greedy, then *)
(* backtracking), or 0 when the pattern does not match at pos.             *)

DigitChars == {"0", "1", "2", "3", "4", "5", "6", "7", "8", "9"}
LowerChars == {"a", "b", "c", "d", "e", "f", "g", "h", "i", "j", "k", "l", "m",
               "n", "o", "p", "q", "r", "s", "t", "u", "v", "w", "x", "y", "z"}
UpperChars == {"A", "B", "C", "D", "E", "F", "G", "H", "I", "J", "K", "L", "M",
               "N", "O", "P", "Q", "R", "S", "T", "U", "V", "W", "X", "Y", "Z"}
\* \w
WordChars == DigitChars \cup LowerChars \cup UpperChars \cup {"_"}
\* \s, and what str.strip() removes
SpaceChars == {" ", "\t", "\n"}
\* [A-Za-z0-9._%+-]
EmailLocalChars == DigitChars \cup LowerChars \cup UpperChars \cup {".", "_", "%", "+", "-"}
\* [A-Za-z0-9.-]
EmailDomainChars == DigitChars \cup LowerChars \cup UpperChars \cup {".", "-"}
\* [A-Z|a-z]: the bar is a member of the class
EmailTldChars == LowerChars \cup UpperChars \cup {"|"}

DigitValue(c) ==
    CASE c = "0" -> 0 [] c = "1" -> 1 [] c = "2" -> 2 [] c = "3" -> 3 [] c = "4" -> 4
      [] c = "5" -> 5 [] c = "6" -> 6 [] c = "7" -> 7 [] c = "8" -> 8 [] c = "9" -> 9

IsWordAt(text, i) == i >= 1 /\ i <= Len(text) /\ text[i] \in WordChars

\* \b between text[pos - 1] and text[pos]
BoundaryAt(text, pos) == IsWordAt(text, pos - 1) # IsWordAt(text, pos)

\* \d{n} at pos
DigitsAt(text, pos, n) ==
    pos + n - 1 <= Len(text) /\ \A i \in pos..(pos + n - 1) : text[i] \in DigitChars

\* [seps]? at pos: the position after it
SkipOpt(text, pos, seps) ==
    IF pos <= Len(text) /\ text[pos] \in seps THEN pos + 1 ELSE pos

\* the position after the longest run of characters of a class that starts at pos
RECURSIVE RunEnd(_, _, _)
RunEnd(text, pos, class) ==
    IF pos <= Len(text) /\ text[pos] \in class THEN RunEnd(text, pos + 1, class) ELSE pos

Max(S) == CHOOSE x \in S : \A y \in S : y <= x

\* an ssn pattern whose dashes are not optional: \b\d{3}-\d{2}-\d{4}\b
MatchSsnAtDashed(text, pos) ==
    IF BoundaryAt(text, pos) /\ DigitsAt(text, pos, 3)
        /\ pos + 3 <= Len(text) /\ text[pos + 3] = "-" /\ DigitsAt(text, pos + 4, 2)
        /\ pos + 6 <= Len(text) /\ text[pos + 6] = "-" /\ DigitsAt(text, pos + 7, 4)
        /\ BoundaryAt(text, pos + 11)
    THEN pos + 11 ELSE 0

\* \b\d{3}-?\d{2}-?\d{4}\b
MatchSsnAt(text, pos) ==
    IF ~ (BoundaryAt(text, pos) /\ DigitsAt(text, pos, 3)) THEN 0
    ELSE LET p2 == SkipOpt(text, pos + 3, {"-"}) IN
         IF ~ DigitsAt(text, p2, 2) THEN 0
         ELSE LET p3 == SkipOpt(text, p2 + 2, {"-"}) IN
              IF DigitsAt(text, p3, 4) /\ BoundaryAt(text, p3 + 4) THEN p3 + 4 ELSE 0

\* \b(?:\d{4}[-\s]?){3}\d{4}\b
MatchCreditCardAt(text, pos) ==
    LET seps == {"-"} \cup SpaceChars
        \* \d{4}[-\s]? at p: the position after it, or 0
        Group(p) == IF p > 0 /\ DigitsAt(text, p, 4) THEN SkipOpt(text, p + 4, seps) ELSE 0
        p4 == Group(Group(Group(pos)))
    IN  IF BoundaryAt(text, pos) /\ p4 > 0 /\ DigitsAt(text, p4, 4)
           /\ BoundaryAt(text, p4 + 4)
        THEN p4 + 4 ELSE 0

\* \(?([0-9]{3})\)?[-.\s]?([0-9]{3})[-.\s]?([0-9]{4})\b at pos
MatchPhoneBodyAt(text, pos) ==
    LET seps == {"-", "."} \cup SpaceChars
        p1 == SkipOpt(text, pos, {"("})
    IN  IF ~ DigitsAt(text, p1, 3) THEN 0
        ELSE LET p2 == SkipOpt(text, SkipOpt(text, p1 + 3, {")"}), seps) IN
             IF ~ DigitsAt(text, p2, 3) THEN 0
             ELSE LET p3 == SkipOpt(text, p2 + 3, seps) IN
                  IF DigitsAt(text, p3, 4) /\ BoundaryAt(text, p3 + 4) THEN p3 + 4 ELSE 0

\* \b(?:\+?1[-.\s]?)?<body>: the country code is tried first, with and then
\* without its separator, and then left out
MatchPhoneAt(text, pos) ==
    LET seps == {"-", "."} \cup SpaceChars
        p1 == SkipOpt(text, pos, {"+"})
        hasCode == p1 <= Len(text) /\ text[p1] = "1"
        withSep == IF hasCode THEN MatchPhoneBodyAt(text, SkipOpt(text, p1 + 1, seps)) ELSE 0
        noSep == IF hasCode THEN MatchPhoneBodyAt(text, p1 + 1) ELSE 0
    IN  IF ~ BoundaryAt(text, pos) THEN 0
        ELSE IF withSep > 0 THEN withSep
        ELSE IF noSep > 0 THEN noSep
        ELSE MatchPhoneBodyAt(text, pos)

\* \b(?:0[1-9]|1[0-2])[-/](?:0[1-9]|[12]\d|3[01])[-/](?:19|20)\d{2}\b
MatchDateOfBirthAt(text, pos) ==
    LET c(i) == IF pos + i <= Len(text) THEN text[pos + i] ELSE "" 
        month == \/ c(0) = "0" /\ c(1) \in DigitChars \ {"0"}
                 \/ c(0) = "1" /\ c(1) \in {"0", "1", "2"}
        day == \/ c(3) = "0" /\ c(4) \in DigitChars \ {"0"}
               \/ c(3) \in {"1", "2"} /\ c(4) \in DigitChars
               \/ c(3) = "3" /\ c(4) \in {"0", "1"}
        year == /\ \/ c(6) = "1" /\ c(7) = "9"
                   \/ c(6) = "2" /\ c(7) = "0"
                /\ c(8) \in DigitChars /\ c(9) \in DigitChars
    IN  IF BoundaryAt(text, pos) /\ month /\ c(2) \in {"-", "/"} /\ day
           /\ c(5) \in {"-", "/"} /\ year /\ BoundaryAt(text, pos + 10)
        THEN pos + 10 ELSE 0

\* \b\d{8,}\b
MatchAccountNumberAt(text, pos) ==
    LET e == RunEnd(text, pos, DigitChars)
        \* the run may be given back digit by digit, down to 8
        ends == { q \in (pos + 8)..e : BoundaryAt(text, q) }
    IN  IF BoundaryAt(text, pos) /\ ends # {} THEN Max(ends) ELSE 0

\* \b[A-Za-z0-9._%+-]+@[A-Za-z0-9.-]+\.[A-Z|a-z]{2,}\b
MatchEmailAt(text, pos) ==
    LET localEnd == RunEnd(text, pos, EmailLocalChars)
        \* the local part may be given back, but only "@" may follow it
        at == localEnd
        domainEnd == RunEnd(text, at + 1, EmailDomainChars)
        \* q: the dot that ends the domain; the domain keeps at least one character
        TldEnds(q) == { e \in (q + 3)..RunEnd(text, q + 1, EmailTldChars) :
                            BoundaryAt(text, e) }
        dots == { q \in (at + 2)..(domainEnd - 1) : text[q] = "." /\ TldEnds(q) # {} }
    IN  IF BoundaryAt(text, pos) /\ localEnd > pos /\ at <= Len(text) /\ text[at] = "@"
           /\ dots # {}
        THEN Max(TldEnds(Max(dots))) ELSE 0

\* the categories of self.patterns, in the dict's insertion order
PatternOrder == <<"email", "ssn", "credit_card", "phone_number", "date_of_birth",
                  "account_number">>

MatchAt(reason, text, pos) ==
    CASE reason = "email" -> MatchEmailAt(text, pos)
      [] reason = "ssn" -> MatchSsnAt(text, pos)
      [] reason = "credit_card" -> MatchCreditCardAt(text, pos)
      [] reason = "phone_number" -> MatchPhoneAt(text, pos)
      [] reason = "date_of_birth" -> MatchDateOfBirthAt(text, pos)
      [] reason = "account_number" -> MatchAccountNumberAt(text, pos)

\* pattern.finditer(text): the matches from left to right, each search
\* starting where the match before it ended
RECURSIVE FindIter(_, _, _)
FindIter(reason, text, pos) ==
    IF pos > Len(text) THEN <<>>
    ELSE LET e == MatchAt(reason, text, pos) IN
         IF e > 0 THEN <<SubSeq(text, pos, e - 1)>> \o FindIter(reason, text, e)
         ELSE FindIter(reason, text, pos + 1)

-----------------------------------------------------------------------------
(* Python floats: IEEE-754 binary64 arithmetic on positive numbers.  A      *)
(* double is [m |-> its 53 significand bits, most significant first and    *)
(* the first one 1, e |-> the exponent of the last bit]: its value is      *)
(* m * 2^e.  Sums and quotients are worked out exactly on bit strings (in  *)
(* chunks of bits) and then rounded to nearest, ties to even.              *)

\* the significand of a double, in bits
SignificandBits == 53
\* the extra quotient bits a division works out before it rounds
GuardBits == 64
\* bit strings are added and divided in chunks of this many bits
ChunkBits == 8
ChunkBase == 2 ^ ChunkBits

Zeros(n) == IF n <= 0 THEN <<>> ELSE [i \in 1..n |-> 0]

\* b without its leading zeros
StripZeros(b) ==
    IF \A i \in 1..Len(b) : b[i] = 0 THEN <<>>
    ELSE SubSeq(b, CHOOSE i \in 1..Len(b) : b[i] = 1 /\ \A j \in 1..(i - 1) : b[j] = 0,
                Len(b))

\* the binary digits of a natural number
RECURSIVE IntBits(_)
IntBits(n) == IF n = 0 THEN <<>> ELSE IntBits(n \div 2) \o <<n % 2>>

\* the value of the bits i .. i + ChunkBits - 1 of b
RECURSIVE ChunkValue(_, _, _)
ChunkValue(b, i, k) ==
    IF k = 0 THEN 0 ELSE 2 * ChunkValue(b, i, k - 1) + b[i + k - 1]

\* a bit string of n chunks, as its chunks; and back
ToChunks(b, n) ==
    [j \in 1..n |-> ChunkValue(Zeros(n * ChunkBits - Len(b)) \o b,
                               (j - 1) * ChunkBits + 1, ChunkBits)]
ToBits(c) ==
    [i \in 1..(Len(c) * ChunkBits) |->
        (c[((i - 1) \div ChunkBits) + 1] \div (2 ^ (ChunkBits - 1 - ((i - 1) % ChunkBits)))) % 2]

\* the chunks a bit string of length n needs
ChunksFor(n) == (n + ChunkBits - 1) \div ChunkBits

\* x + y + the carry of the lower chunks: the carry, then the sum chunks
AddStep(x, y, lower) ==
    <<(x + y + Head(lower)) \div ChunkBase, (x + y + Head(lower)) % ChunkBase>>
      \o Tail(lower)

RECURSIVE AddFrom(_, _, _)
AddFrom(a, b, i) ==
    IF i > Len(a) THEN <<0>> ELSE AddStep(a[i], b[i], AddFrom(a, b, i + 1))

AddChunks(a, b, n) == AddFrom(ToChunks(a, n), ToChunks(b, n), 1)

\* a + b, exactly, as a bit string (with leading zeros)
AddBits(a, b) ==
    ToBits(AddChunks(a, b, ChunksFor(IF Len(a) >= Len(b) THEN Len(a) ELSE Len(b))))

\* long division by a small number: <<the quotient chunks, the remainder>>
DivStep(done, chunk, n) ==
    <<Append(done[1], (ChunkBase * done[2] + chunk) \div n),
      (ChunkBase * done[2] + chunk) % n>>

RECURSIVE DivFrom(_, _, _)
DivFrom(c, i, n) ==
    IF i = 0 THEN <<<<>>, 0>> ELSE DivStep(DivFrom(c, i - 1, n), c[i], n)

QuotientBits(q) == <<ToBits(q[1]), q[2]>>

\* bits \div n and bits % n: <<the quotient as a bit string, the remainder>>
DivBits(bits, n) ==
    QuotientBits(DivFrom(ToChunks(bits, ChunksFor(Len(bits))), ChunksFor(Len(bits)), n))

\* the 53 bits kept are raised by one when the dropped part is above the
\* half, or is the half and the last kept bit is odd
RoundUp(s, sticky) ==
    /\ s[SignificandBits + 1] = 1
    /\ \/ sticky
       \/ s[SignificandBits] = 1
       \/ \E i \in (SignificandBits + 2)..Len(s) : s[i] = 1

\* the rounded significand, 53 bits after the carry out
Rounded(s, sticky) ==
    IF RoundUp(s, sticky)
    THEN SubSeq(AddBits(SubSeq(s, 1, SignificandBits), <<1>>),
                ChunksFor(SignificandBits) * ChunkBits + ChunkBits - SignificandBits,
                ChunksFor(SignificandBits) * ChunkBits + ChunkBits)
    ELSE <<0>> \o SubSeq(s, 1, SignificandBits)

\* the double of the rounded significand r, whose last bit has exponent e
Normalized(r, e) ==
    IF r[1] = 1 THEN [m |-> SubSeq(r, 1, SignificandBits), e |-> e + 1]
    ELSE [m |-> Tail(r), e |-> e]

\* the double nearest to s * 2^e (plus a fraction of 2^e when sticky), s a
\* bit string without leading zeros
RoundStripped(s, e, sticky) ==
    IF Len(s) <= SignificandBits
    THEN [m |-> s \o Zeros(SignificandBits - Len(s)), e |-> e - (SignificandBits - Len(s))]
    ELSE Normalized(Rounded(s, sticky), e + Len(s) - SignificandBits)

RoundBits(bits, e, sticky) == RoundStripped(StripZeros(bits), e, sticky)

\* the lower of the two exponents
LowExp(a, b) == IF a.e <= b.e THEN a.e ELSE b.e

\* a + b
FAdd(a, b) ==
    RoundBits(AddBits(a.m \o Zeros(a.e - LowExp(a, b)), b.m \o Zeros(b.e - LowExp(a, b))),
              LowExp(a, b), FALSE)

RoundQuotient(q, e) == RoundBits(q[1], e, q[2] # 0)

\* a / n, n a small positive integer
FDivInt(a, n) == RoundQuotient(DivBits(a.m \o Zeros(GuardBits), n), a.e - GuardBits)

\* the double nearest to p / q: the value of a decimal literal such as 0.95
FromRatio(p, q) == RoundQuotient(DivBits(IntBits(p) \o Zeros(GuardBits), q), 0 - GuardBits)

BitsLess(a, b) ==
    \E i \in 1..Len(a) : a[i] < b[i] /\ \A j \in 1..(i - 1) : a[j] = b[j]

\* a < b, a <= b
FLess(a, b) == a.e < b.e \/ (a.e = b.e /\ BitsLess(a.m, b.m))
FLeq(a, b) == a = b \/ FLess(a, b)

\* min(a, b)
FMin(a, b) == IF FLeq(a, b) THEN a ELSE b

\* the doubles of the two-decimal literals 0.01 .. 1.00, by their hundredths
DoubleOf == [h \in 1..100 |-> FromRatio(h, 100)]

\* the hundredths whose literal a double is
HundredthsOf(d) == CHOOSE h \in 1..100 : DoubleOf[h] = d

-----------------------------------------------------------------------------
(* _calculate_confidence and detect_content *)

\* base_confidence.get(reason, 0.50), in hundredths
BaseConfidence(reason) ==
    CASE reason = "email" -> 95
      [] reason = "ssn" -> 90
      [] reason = "credit_card" -> 85
      [] reason = "phone_number" -> 80
      [] reason = "date_of_birth" -> 75
      [] reason = "account_number" -> 70
      [] reason = "address" -> 60
      [] OTHER -> 50

\* text.replace('-', '').replace(' ', ''): a tab or a line break stays
StripSeparators(text) == SelectSeq(text, LAMBDA c : c \notin {"-", " "})

\* int(d) raises ValueError on a character that is no digit
DigitsOfRaises(text) == \E i \in 1..Len(text) : text[i] \notin DigitChars

DigitsOf(text) == [i \in 1..Len(text) |-> DigitValue(text[i])]

\* _calculate_confidence raises when the Luhn check does
ConfidenceRaises(reason, text) ==
    reason = "credit_card" /\ DigitsOfRaises(StripSeparators(text))

Min2(a, b) == IF a <= b THEN a ELSE b

\* the 0.10 of: confidence += 0.10
LuhnBoost == 10

\* the float _calculate_confidence returns
ConfidenceValue(reason, text) ==
    IF reason = "credit_card" /\ IsValidCreditCard(DigitsOf(StripSeparators(text)))
    THEN FMin(FAdd(DoubleOf[BaseConfidence(reason)], DoubleOf[LuhnBoost]), DoubleOf[100])
    ELSE FMin(DoubleOf[BaseConfidence(reason)], DoubleOf[100])

\* the same in hundredths: the float is the double of a two-decimal literal
CalculateConfidence(reason, text) == HundredthsOf(ConfidenceValue(reason, text))

\* the matches of one pattern, each with the pattern's category
PairsOf(found, reason) == [i \in 1..Len(found) |-> [text |-> found[i], reason |-> reason]]

\* the (text, reason) pairs detect_content walks through, in its order
RECURSIVE DetectedPairs(_, _)
DetectedPairs(text, k) ==
    IF k > Len(PatternOrder) THEN <<>>
    ELSE PairsOf(FindIter(PatternOrder[k], text, 1), PatternOrder[k])
           \o DetectedPairs(text, k + 1)

\* _calculate_confidence raises on one of the pairs
PairsRaise(pairs) ==
    \E i \in 1..Len(pairs) : ConfidenceRaises(pairs[i].reason, pairs[i].text)

\* detected.append({'text': ..., 'reason': ..., 'confidence': ...}) for each pair
ItemsOf(pairs) ==
    [i \in 1..Len(pairs) |->
        [text |-> pairs[i].text, reason |-> pairs[i].reason,
         confidence |-> CalculateConfidence(pairs[i].reason, pairs[i].text)]]

DetectContentRaises(text) == PairsRaise(DetectedPairs(text, 1))

DetectContent(text) == ItemsOf(DetectedPairs(text, 1))

\* one call of detect_content: whether it raises, and the list it returns
\* (none when it raises)
DetectOutcome(pairs) ==
    [raises |-> PairsRaise(pairs),
     items |-> IF PairsRaise(pairs) THEN <<>> ELSE ItemsOf(pairs)]

-----------------------------------------------------------------------------
(* Documents: what fitz makes of the bytes *)

\* span texts
TextBlank == <<" ", " ">>
TextPlain == <<"H", "i">>
TextEmail == <<"a", "@", "b", ".", "c", "o">>
TextNine == <<"1", "2", "3", "4", "5", "6", "7", "8", "9">>
TextSsn == <<"1", "2", "3", "-", "4", "5", "-", "6", "7", "8", "9">>
\* a card number with its groups separated by tabs: _is_valid_credit_card
\* raises on it
TextTabCard == <<"4", "1", "1", "1", "\t", "1", "1", "1", "1", "\t", "1", "1", "1", "1", "\t",
                 "1", "1", "1", "1">>

SpanTexts == {TextBlank, TextPlain, TextEmail, TextNine, TextSsn, TextTabCard}

\* detect_content on the span texts, worked out once: whether it raises, and
\* the items it returns
DetectedOnSpanTexts == [t \in SpanTexts |-> DetectOutcome(DetectedPairs(t, 1))]

\* the items of the categories that self.patterns holds
ItemsIn(table, items) ==
    SelectSeq(items, LAMBDA item : \E k \in 1..Len(table) : table[k] = item.reason)

ThroughTable(table, detected) ==
    IF table = PatternOrder THEN detected
    ELSE [raises |-> detected.raises, items |-> ItemsIn(table, detected.items)]

\* self.detect_content(text), as _process_page calls it on a span's text
Detect(text) == ThroughTable(patterns, DetectedOnSpanTexts[text])

\* a span of page.get_text("dict"): its text and its bbox (x0, y0, x1, y1)
SpanOf(text, bbox) == [text |-> text, bbox |-> bbox]

SpansNoMatch == << SpanOf(TextBlank, <<0, 0, 2, 1>>), SpanOf(TextPlain, <<0, 2, 2, 3>>) >>
SpansEmail == << SpanOf(TextEmail, <<1, 1, 7, 2>>) >>
SpansMixed == << SpanOf(TextPlain, <<0, 0, 2, 1>>), SpanOf(TextNine, <<3, 0, 12, 1>>) >>
SpansSsn == << SpanOf(TextSsn, <<2, 4, 13, 5>>) >>
\* a span with a match, then one on which detect_content raises
SpansEmailThenTabCard ==
    << SpanOf(TextEmail, <<1, 1, 7, 2>>), SpanOf(TextTabCard, <<1, 3, 20, 4>>) >>

\* A page: its spans; whether scanning it raises (doc[page_num] or
\* page.get_text); and where applying its redactions raises: nowhere
\* ("none"), at the last annotation ("last": add_redact_annot or update, the
\* annotations before it are added) or at page.apply_redactions() ("commit").
PageOf(spans, scan_fault, apply_fault) ==
    [spans |-> spans, scan_fault |-> scan_fault, apply_fault |-> apply_fault]

Pages ==
    { PageOf(SpansNoMatch, FALSE, "none"),
      PageOf(SpansEmail, FALSE, "none"),
      PageOf(SpansEmailThenTabCard, FALSE, "none"),
      PageOf(SpansEmail, FALSE, "commit"),
      PageOf(SpansMixed, FALSE, "none"),
      PageOf(SpansMixed, FALSE, "last"),
      PageOf(SpansSsn, FALSE, "none") }

PageSeqs == UNION { [1..n -> Pages] : n \in 0..MaxPages }

\* the words of the message of an exception, and the keys the code looks for
OpenErrorWords == {"Password", "password", "corrupted", "damaged", "xref"}
WriteErrorWords == {"Memory", "timeout", "xref"}

\* the keys k with: k in word.lower()
KeysOf(word) ==
    CASE word \in {"Password", "password"} -> {"password"}
      [] word = "corrupted" -> {"corrupt"}
      [] word = "damaged" -> {"damaged"}
      [] word = "Memory" -> {"memory"}
      [] word = "timeout" -> {"timeout"}
      [] OTHER -> {}

\* key in str(e).lower()
Mentions(words, key) == \E w \in words : key \in KeysOf(w)

\* headers: the first bytes of a file
HeaderPdf14 == <<"%", "P", "D", "F", "-", "1", ".", "4">>
\* a header whose version token begins at byte 19 and ends at byte 21
HeaderLateVersion ==
    <<"%", "P", "D", "F", "-", "X", "X", "X", "X", "X", "X", "X", "X", "X", "X", "X", "X", "X",
      "1", ".", "4">>
Headers ==
    { <<>>,
      <<"%", "P", "D">>,
      <<"1", ".", "4">>,
      PdfSignature,
      HeaderPdf14,
      <<"%", "P", "D", "F", "-", "2", ".", "0">>,
      <<"%", "P", "D", "F", "-", "1", "xFF", ".", "7">>,
      <<"%", "P", "D", "F", "-", "9", ".", "9">>,
      <<"X", "P", "D", "F", "-", "1", ".", "4">>,
      <<"P", "D", "F", "%", "-", "1", ".", "4">>,
      HeaderLateVersion }

\* fitz.open on the bytes: opens, or raises with a message
Opens == [ok |-> TRUE, words |-> {}]
OpenRaises(words) == [ok |-> FALSE, words |-> words]

FileOf(bytes, open, pages) == [kind |-> "file", bytes |-> bytes, open |-> open, pages |-> pages]
NoFile == [kind |-> "none"]

Files ==
    { FileOf(h, Opens, <<>>) : h \in Headers }
      \cup { FileOf(HeaderPdf14, OpenRaises(w), <<>>) : w \in SUBSET OpenErrorWords }
      \cup { FileOf(HeaderPdf14, Opens, p) : p \in PageSeqs }

\* doc.write() raises: the class and the message of what it raises
WriteErrors ==
    { [cls |-> "RuntimeError", words |-> w] : w \in { {"xref"}, {"Memory"}, {"timeout"} } }
      \cup { [cls |-> "ValueError", words |-> {"Memory"}] }

-----------------------------------------------------------------------------
(* Exceptions, results and the helpers of process_pdf *)

\* an exception: its class, the fixed text of its message, and the words of an
\* underlying message that the text carries (or that it consists of)
Error(cls, msg, detail) == [cls |-> cls, msg |-> msg, detail |-> detail]
NoExc == [cls |-> "none"]

MsgInvalidHeader == "Invalid PDF file: Corrupted or unsupported file format"
MsgPassword == "Password-protected PDF files are not supported"
MsgCorrupted == "PDF file appears to be corrupted or damaged"
MsgUnableToOpen == "Unable to open PDF file: "
MsgNoPages == "PDF file contains no pages or is empty"
MsgTooLarge == "PDF file is too large or complex to process"
MsgTimedOut == "PDF processing timed out - file may be too complex"
MsgUnableToProcess == "Unable to process PDF file: "

\* the same without .lower(): a capitalised key word is missed
OpenErrorOfCaseSensitive(words) ==
    IF "password" \in words THEN Error("ValueError", MsgPassword, {})
    ELSE IF "corrupted" \in words \/ "damaged" \in words
         THEN Error("ValueError", MsgCorrupted, {})
    ELSE Error("ValueError", MsgUnableToOpen, words)

\* the except clause around fitz.open: every open error becomes a ValueError
OpenErrorOf(words) ==
    IF Mentions(words, "password") THEN Error("ValueError", MsgPassword, {})
    ELSE IF Mentions(words, "corrupt") \/ Mentions(words, "damaged")
         THEN Error("ValueError", MsgCorrupted, {})
    ELSE Error("ValueError", MsgUnableToOpen, words)

\* the except Exception clause of process_pdf
ConvertError(e) ==
    IF Mentions(e.detail, "memory") THEN Error("ValueError", MsgTooLarge, {})
    ELSE IF Mentions(e.detail, "timeout") THEN Error("ValueError", MsgTimedOut, {})
    ELSE Error("ValueError", MsgUnableToProcess, e.detail)

\* text.strip() is empty
IsBlank(text) == \A i \in 1..Len(text) : text[i] \in SpaceChars

\* a block that carries the loop's 0-based page index
BlockOfZeroBased(page_index, span, item) ==
    [page_number |-> page_index,
     x |-> span.bbox[1],
     y |-> span.bbox[2],
     width |-> span.bbox[3] - span.bbox[1],
     height |-> span.bbox[4] - span.bbox[2],
     reason |-> item.reason,
     confidence |-> item.confidence,
     original_text |-> item.text]

\* a block whose size is the far corner of the bbox instead of its extent
BlockOfCornerAsSize(page_index, span, item) ==
    [page_number |-> page_index + 1,
     x |-> span.bbox[1],
     y |-> span.bbox[2],
     width |-> span.bbox[3],
     height |-> span.bbox[4],
     reason |-> item.reason,
     confidence |-> item.confidence,
     original_text |-> item.text]

\* RedactionBlock(...) of _process_page for one detected item of one span
BlockOf(page_index, span, item) ==
    [page_number |-> page_index + 1,
     x |-> span.bbox[1],
     y |-> span.bbox[2],
     width |-> span.bbox[3] - span.bbox[1],
     height |-> span.bbox[4] - span.bbox[2],
     reason |-> item.reason,
     confidence |-> item.confidence,
     original_text |-> item.text]

\* _process_page raises: detect_content raises on one of its non-blank spans
ProcessPageRaises(page) ==
    \E i \in 1..Len(page.spans) :
        ~ IsBlank(page.spans[i].text) /\ Detect(page.spans[i].text).raises

\* the blocks of one span: one per detected item, in the items' order
SpanBlocks(page_index, span, items) ==
    [i \in 1..Len(items) |-> BlockOf(page_index, span, items[i])]

\* if not text.strip(): continue; otherwise the items of detect_content
SpanItems(span) == IF IsBlank(span.text) THEN <<>> ELSE Detect(span.text).items

\* _process_page: the blocks of the spans from the k-th on
RECURSIVE ProcessSpans(_, _, _)
ProcessSpans(page, page_index, k) ==
    IF k > Len(page.spans) THEN <<>>
    ELSE SpanBlocks(page_index, page.spans[k], SpanItems(page.spans[k]))
           \o ProcessSpans(page, page_index, k + 1)

ProcessPage(page, page_index) == ProcessSpans(page, page_index, 1)

\* the keys of blocks_by_page in insertion order: the 0-based pages of the
\* blocks, each at its first occurrence
RECURSIVE PageKeys(_, _)
PageKeys(blocks, seen) ==
    IF blocks = <<>> THEN <<>>
    ELSE LET k == Head(blocks).page_number - 1 IN
         IF k \in seen THEN PageKeys(Tail(blocks), seen)
         ELSE <<k>> \o PageKeys(Tail(blocks), seen \cup {k})

\* blocks_by_page[page_index]
BlocksOfPage(blocks, page_index) ==
    SelectSeq(blocks, LAMBDA b : b.page_number - 1 = page_index)

\* fitz.Rect(block.x, block.y, block.x + block.width, block.y + block.height)
RectOf(block) == <<block.x, block.y, block.x + block.width, block.y + block.height>>

RectsOf(blocks) == [i \in 1..Len(blocks) |-> RectOf(blocks[i])]

\* sum(confidence_scores): the floats are added one by one from the left
RECURSIVE FSum(_, _)
FSum(scores, k) ==
    IF k = 1 THEN DoubleOf[scores[1]]
    ELSE FAdd(FSum(scores, k - 1), DoubleOf[scores[k]])

\* sum(confidence_scores) / len(confidence_scores)
AverageOf(scores) == FDivInt(FSum(scores, Len(scores)), Len(scores))

\* the confidences of the blocks of a page that is read
RECURSIVE SpanScoresFrom(_, _)
SpanScoresFrom(spans, k) ==
    IF k > Len(spans) THEN <<>>
    ELSE LET items == DetectedOnSpanTexts[spans[k].text].items
         IN  [i \in 1..Len(items) |-> items[i].confidence] \o SpanScoresFrom(spans, k + 1)

PageScores == { SpanScoresFrom(page.spans, 1) : page \in Pages }

\* the confidence lists of the documents of up to n pages
RECURSIVE ScoreLists(_)
ScoreLists(n) ==
    IF n = 0 THEN {<<>>}
    ELSE LET shorter == ScoreLists(n - 1)
         IN  shorter \cup { s \o p : s \in shorter, p \in PageScores }

\* the averages of those lists, worked out once
AverageOnScoreLists == [scores \in ScoreLists(MaxPages) \ {<<>>} |-> AverageOf(scores)]

Average(scores) ==
    IF scores \in DOMAIN AverageOnScoreLists THEN AverageOnScoreLists[scores]
    ELSE AverageOf(scores)

\* _create_summary; minimum and maximum in hundredths, the average as the
\* float that sum(...) / len(...) gives
SeqRange(s) == { s[i] : i \in 1..Len(s) }
Min(S) == CHOOSE x \in S : \A y \in S : x <= y

CreateSummary(blocks) ==
    IF blocks = <<>>
    THEN [total_redactions |-> 0, redactions_by_reason |-> <<>>,
          pages_affected |-> 0, confidence_scores |-> <<>>]
    ELSE LET reasons == { blocks[i].reason : i \in 1..Len(blocks) }
             scores == [i \in 1..Len(blocks) |-> blocks[i].confidence]
         IN  [total_redactions |-> Len(blocks),
              redactions_by_reason |->
                  [r \in reasons |->
                      Cardinality({ i \in 1..Len(blocks) : blocks[i].reason = r })],
              pages_affected |->
                  Cardinality({ blocks[i].page_number : i \in 1..Len(blocks) }),
              confidence_scores |->
                  [average |-> Average(scores),
                   minimum |-> Min(SeqRange(scores)),
                   maximum |-> Max(SeqRange(scores))]]

NoOutcome == [kind |-> "none"]
NoResult == [kind |-> "none"]

\* the dict process_pdf returns (file_id, the times and dates left out);
\* redacted_bytes is the handle's content when doc.write() ran
ResultOf(pages, blocks, bytes) ==
    [kind |-> "result", total_pages |-> pages, redaction_blocks |-> blocks,
     summary |-> CreateSummary(blocks), redacted_bytes |-> bytes]

-----------------------------------------------------------------------------
(* process_pdf, step by step *)

\* if not self._validate_pdf_header(file_content): raise ValueError(...)
Validate ==
    /\ ppc = "validate"
    /\ IF ValidatePdfHeader(file_content.bytes)
       THEN ppc' = "open" /\ exc' = exc
       ELSE ppc' = "except_value" /\ exc' = Error("ValueError", MsgInvalidHeader, {})
    /\ UNCHANGED <<file_content, handleVars, scanVars, applyVars, write_outcome,
                   result, outcome, handlerVars, luhnVars, callVars,
                   instanceVars, repeatVars, concVars>>

\* doc = fitz.open(stream=file_content, filetype="pdf"), and its except clause
Open ==
    /\ ppc = "open"
    /\ open_calls' = open_calls + 1
    /\ IF file_content.open.ok
       THEN /\ doc' = "open"
            /\ annots' = [p \in 0..(Len(file_content.pages) - 1) |-> <<>>]
            /\ redacted' = [p \in 0..(Len(file_content.pages) - 1) |-> <<>>]
            /\ ppc' = "check_pages"
            /\ exc' = exc
       ELSE /\ exc' = OpenErrorOf(file_content.open.words)
            /\ ppc' = "except_value"
            /\ UNCHANGED <<doc, annots, redacted>>
    /\ UNCHANGED <<file_content, close_calls, close_raised, scanVars, applyVars,
                   write_outcome, result, outcome, handlerVars, luhnVars, callVars,
                   instanceVars, repeatVars, concVars>>

\* no check of the page count
CheckPagesUnguarded ==
    /\ ppc = "check_pages"
    /\ total_pages' = Len(file_content.pages)
    /\ redaction_blocks' = <<>>
    /\ page_num' = 0
    /\ scan_log' = <<>>
    /\ ppc' = IF Len(file_content.pages) = 0 THEN "apply" ELSE "scan"
    /\ UNCHANGED <<file_content, handleVars, applyVars, endVars, handlerVars, luhnVars, callVars,
                   instanceVars, repeatVars, concVars>>

\* if doc is None or doc.page_count == 0: raise ValueError(...)
CheckPages ==
    /\ ppc = "check_pages"
    /\ IF doc = "none" \/ Len(file_content.pages) = 0
       THEN /\ exc' = Error("ValueError", MsgNoPages, {})
            /\ ppc' = "except_value"
            /\ UNCHANGED scanVars
       ELSE /\ total_pages' = Len(file_content.pages)
            /\ redaction_blocks' = <<>>
            /\ page_num' = 0
            /\ scan_log' = <<>>
            /\ ppc' = "scan"
            /\ exc' = exc
    /\ UNCHANGED <<file_content, handleVars, applyVars, write_outcome, result,
                   outcome, handlerVars, luhnVars, callVars,
                   instanceVars, repeatVars, concVars>>

\* the try body of the scan loop raises: doc[page_num] or page.get_text (the
\* page's scan_fault), or _process_page itself
ScanRaises(page) == page.scan_fault \/ ProcessPageRaises(page)

\* a scan loop without its try/except: the page's exception leaves the loop
ScanPageAborting ==
    /\ ppc = "scan"
    /\ page_num < total_pages
    /\ LET page == file_content.pages[page_num + 1] IN
       IF ScanRaises(page)
       THEN /\ scan_log' = Append(scan_log, "failed")
            /\ exc' = Error("RuntimeError", "", {"xref"})
            /\ ppc' = "except_other"
            /\ UNCHANGED <<redaction_blocks, page_num>>
       ELSE /\ scan_log' = Append(scan_log, "ok")
            /\ redaction_blocks' = redaction_blocks \o ProcessPage(page, page_num)
            /\ page_num' = page_num + 1
            /\ ppc' = IF page_num + 1 = total_pages THEN "apply" ELSE "scan"
            /\ exc' = exc
    /\ UNCHANGED <<file_content, handleVars, total_pages, applyVars, write_outcome,
                   result, outcome, handlerVars, luhnVars, callVars,
                   instanceVars, repeatVars, concVars>>

\* a scan whose detection uses the pattern table up: a table built as an
\* iterator is empty after the first page that was read
ScanPageConsumingPatterns ==
    /\ ppc = "scan"
    /\ page_num < total_pages
    /\ LET page == file_content.pages[page_num + 1] IN
       IF ScanRaises(page)
       THEN /\ scan_log' = Append(scan_log, "failed")
            /\ redaction_blocks' = redaction_blocks
            /\ patterns' = patterns
       ELSE /\ scan_log' = Append(scan_log, "ok")
            /\ redaction_blocks' = redaction_blocks \o ProcessPage(page, page_num)
            /\ patterns' = <<>>
    /\ page_num' = page_num + 1
    /\ ppc' = IF page_num + 1 = total_pages THEN "apply" ELSE "scan"
    /\ UNCHANGED <<file_content, handleVars, total_pages, applyVars, endVars,
                   handlerVars, luhnVars, callVars, repeatVars, concVars>>

\* the blocks of the spans from the k-th on, up to the first span on which
\* detect_content raises
RECURSIVE BlocksBeforeRaise(_, _, _)
BlocksBeforeRaise(page, page_index, k) ==
    IF k > Len(page.spans) THEN <<>>
    ELSE IF ~ IsBlank(page.spans[k].text) /\ Detect(page.spans[k].text).raises THEN <<>>
    ELSE SpanBlocks(page_index, page.spans[k], SpanItems(page.spans[k]))
           \o BlocksBeforeRaise(page, page_index, k + 1)

\* a _process_page that appends to the caller's list as it goes: what a page
\* gave before its scan raised stays in redaction_blocks
ScanPageKeepingPartial ==
    /\ ppc = "scan"
    /\ page_num < total_pages
    /\ LET page == file_content.pages[page_num + 1] IN
       IF ScanRaises(page)
       THEN /\ scan_log' = Append(scan_log, "failed")
            /\ redaction_blocks' = IF page.scan_fault THEN redaction_blocks
                                   ELSE redaction_blocks \o BlocksBeforeRaise(page, page_num, 1)
       ELSE /\ scan_log' = Append(scan_log, "ok")
            /\ redaction_blocks' = redaction_blocks \o ProcessPage(page, page_num)
    /\ page_num' = page_num + 1
    /\ ppc' = IF page_num + 1 = total_pages THEN "apply" ELSE "scan"
    /\ UNCHANGED <<file_content, handleVars, total_pages, applyVars, endVars,
                   handlerVars, luhnVars, callVars,
                   instanceVars, repeatVars, concVars>>

\* a scan loop that redacts each page as soon as it is scanned
ScanPageRedactingAtOnce ==
    /\ ppc = "scan"
    /\ page_num < total_pages
    /\ LET page == file_content.pages[page_num + 1] IN
       IF ScanRaises(page)
       THEN /\ scan_log' = Append(scan_log, "failed")
            /\ redaction_blocks' = redaction_blocks
            /\ redacted' = redacted
       ELSE /\ scan_log' = Append(scan_log, "ok")
            /\ redaction_blocks' = redaction_blocks \o ProcessPage(page, page_num)
            /\ redacted' = [redacted EXCEPT
                               ![page_num] = @ \o RectsOf(ProcessPage(page, page_num))]
    /\ page_num' = page_num + 1
    /\ ppc' = IF page_num + 1 = total_pages THEN "apply" ELSE "scan"
    /\ UNCHANGED <<file_content, doc, open_calls, close_calls, close_raised, annots,
                   total_pages, applyVars, endVars, handlerVars, luhnVars, callVars,
                   instanceVars, repeatVars, concVars>>

\* one iteration of: for page_num in range(total_pages), with its try/except
ScanPage ==
    /\ ppc = "scan"
    /\ page_num < total_pages
    /\ LET page == file_content.pages[page_num + 1] IN
       IF ScanRaises(page)
       THEN /\ scan_log' = Append(scan_log, "failed")
            /\ redaction_blocks' = redaction_blocks
       ELSE /\ scan_log' = Append(scan_log, "ok")
            /\ redaction_blocks' = redaction_blocks \o ProcessPage(page, page_num)
    /\ page_num' = page_num + 1
    /\ ppc' = IF page_num + 1 = total_pages THEN "apply" ELSE "scan"
    /\ UNCHANGED <<file_content, handleVars, total_pages, applyVars, endVars,
                   handlerVars, luhnVars, callVars,
                   instanceVars, repeatVars, concVars>>

\* a process_pdf that returns the input as it is when nothing was detected,
\* without serializing the document
ApplyBeginReturningEarly ==
    /\ ppc = "apply"
    /\ IF redaction_blocks = <<>>
       THEN /\ result' = ResultOf(total_pages, <<>>, file_content.bytes)
            /\ ppc' = "finally"
            /\ UNCHANGED applyVars
       ELSE /\ apply_order' = PageKeys(redaction_blocks, {})
            /\ apply_idx' = 0
            /\ apply_log' = <<>>
            /\ ppc' = "apply_page"
            /\ result' = result
    /\ UNCHANGED <<file_content, handleVars, scanVars, write_outcome, exc, outcome,
                   handlerVars, luhnVars, callVars, instanceVars, repeatVars, concVars>>

\* _apply_redactions up to its loop: the early return, the grouping by page
ApplyBegin ==
    /\ ppc = "apply"
    /\ IF redaction_blocks = <<>>
       THEN ppc' = "write" /\ UNCHANGED applyVars
       ELSE /\ apply_order' = PageKeys(redaction_blocks, {})
            /\ apply_idx' = 0
            /\ apply_log' = <<>>
            /\ ppc' = "apply_page"
    /\ UNCHANGED <<file_content, handleVars, scanVars, endVars, handlerVars, luhnVars, callVars,
                   instanceVars, repeatVars, concVars>>

\* an apply loop without its try/except: the page's exception leaves
\* _apply_redactions
ApplyPageAborting ==
    /\ ppc = "apply_page"
    /\ apply_idx < Len(apply_order)
    /\ LET k == apply_order[apply_idx + 1]
           page == file_content.pages[k + 1]
           rects == RectsOf(BlocksOfPage(redaction_blocks, k))
       IN  IF page.apply_fault = "none"
           THEN /\ redacted' = [redacted EXCEPT ![k] = @ \o rects]
                /\ apply_log' = Append(apply_log, <<k, "ok">>)
                /\ apply_idx' = apply_idx + 1
                /\ ppc' = IF apply_idx + 1 = Len(apply_order) THEN "write" ELSE "apply_page"
                /\ exc' = exc
           ELSE /\ redacted' = redacted
                /\ apply_log' = Append(apply_log, <<k, "failed">>)
                /\ apply_idx' = apply_idx
                /\ exc' = Error("RuntimeError", "", {"xref"})
                /\ ppc' = "except_other"
    /\ UNCHANGED <<file_content, doc, open_calls, close_calls, close_raised, annots,
                   scanVars, apply_order, write_outcome, result, outcome, handlerVars,
                   luhnVars, callVars,
                   instanceVars, repeatVars, concVars>>

\* an except clause that throws away what the document holds so far: the
\* redactions committed on the pages before the failing one are gone
ApplyPageRollingBack ==
    /\ ppc = "apply_page"
    /\ apply_idx < Len(apply_order)
    /\ LET k == apply_order[apply_idx + 1]
           page == file_content.pages[k + 1]
           rects == RectsOf(BlocksOfPage(redaction_blocks, k))
       IN  IF page.apply_fault = "none"
           THEN /\ redacted' = [redacted EXCEPT ![k] = @ \o rects]
                /\ annots' = annots
                /\ apply_log' = Append(apply_log, <<k, "ok">>)
           ELSE /\ redacted' = [p \in DOMAIN redacted |-> <<>>]
                /\ annots' = [p \in DOMAIN annots |-> <<>>]
                /\ apply_log' = Append(apply_log, <<k, "failed">>)
    /\ apply_idx' = apply_idx + 1
    /\ ppc' = IF apply_idx + 1 = Len(apply_order) THEN "write" ELSE "apply_page"
    /\ UNCHANGED <<file_content, doc, open_calls, close_calls, close_raised, scanVars,
                   apply_order, endVars, handlerVars, luhnVars, callVars,
                   instanceVars, repeatVars, concVars>>

\* an apply loop that calls page.apply_redactions() in a finally clause: the
\* annotations added before the one that raised are applied
ApplyPageCommittingAdded ==
    /\ ppc = "apply_page"
    /\ apply_idx < Len(apply_order)
    /\ LET k == apply_order[apply_idx + 1]
           page == file_content.pages[k + 1]
           rects == RectsOf(BlocksOfPage(redaction_blocks, k))
       IN  CASE page.apply_fault = "none" ->
                  /\ redacted' = [redacted EXCEPT ![k] = @ \o rects]
                  /\ annots' = annots
                  /\ apply_log' = Append(apply_log, <<k, "ok">>)
             [] page.apply_fault = "last" ->
                  /\ redacted' = [redacted EXCEPT ![k] = @ \o SubSeq(rects, 1, Len(rects) - 1)]
                  /\ annots' = annots
                  /\ apply_log' = Append(apply_log, <<k, "failed">>)
             [] page.apply_fault = "commit" ->
                  /\ annots' = [annots EXCEPT ![k] = @ \o rects]
                  /\ redacted' = redacted
                  /\ apply_log' = Append(apply_log, <<k, "failed">>)
    /\ apply_idx' = apply_idx + 1
    /\ ppc' = IF apply_idx + 1 = Len(apply_order) THEN "write" ELSE "apply_page"
    /\ UNCHANGED <<file_content, doc, open_calls, close_calls, close_raised, scanVars,
                   apply_order, endVars, handlerVars, luhnVars, callVars,
                   instanceVars, repeatVars, concVars>>

\* one iteration of: for page_num in blocks_by_page, with its try/except
ApplyPage ==
    /\ ppc = "apply_page"
    /\ apply_idx < Len(apply_order)
    /\ LET k == apply_order[apply_idx + 1]
           page == file_content.pages[k + 1]
           rects == RectsOf(BlocksOfPage(redaction_blocks, k))
       IN  CASE page.apply_fault = "none" ->
                  /\ redacted' = [redacted EXCEPT ![k] = @ \o rects]
                  /\ annots' = annots
                  /\ apply_log' = Append(apply_log, <<k, "ok">>)
             [] page.apply_fault = "last" ->
                  /\ annots' = [annots EXCEPT ![k] = @ \o SubSeq(rects, 1, Len(rects) - 1)]
                  /\ redacted' = redacted
                  /\ apply_log' = Append(apply_log, <<k, "failed">>)
             [] page.apply_fault = "commit" ->
                  /\ annots' = [annots EXCEPT ![k] = @ \o rects]
                  /\ redacted' = redacted
                  /\ apply_log' = Append(apply_log, <<k, "failed">>)
    /\ apply_idx' = apply_idx + 1
    /\ ppc' = IF apply_idx + 1 = Len(apply_order) THEN "write" ELSE "apply_page"
    /\ UNCHANGED <<file_content, doc, open_calls, close_calls, close_raised, scanVars,
                   apply_order, endVars, handlerVars, luhnVars, callVars,
                   instanceVars, repeatVars, concVars>>

\* redacted_content = doc.write(), returning
WriteOk ==
    /\ ppc = "write"
    /\ write_outcome' = [kind |-> "ok",
                         bytes |-> [pages |-> total_pages, annots |-> annots,
                                    redacted |-> redacted]]
    /\ ppc' = "summary"
    /\ UNCHANGED <<file_content, handleVars, scanVars, applyVars, exc, result, outcome,
                   handlerVars, luhnVars, callVars,
                   instanceVars, repeatVars, concVars>>

\* redacted_content = doc.write(), raising
WriteRaises ==
    /\ ppc = "write"
    /\ \E e \in WriteErrors :
          /\ exc' = Error(e.cls, "", e.words)
          /\ ppc' = IF e.cls = "ValueError" THEN "except_value" ELSE "except_other"
          /\ write_outcome' = [kind |-> "raised", error |-> Error(e.cls, "", e.words)]
    /\ UNCHANGED <<file_content, handleVars, scanVars, applyVars, result, outcome,
                   handlerVars, luhnVars, callVars,
                   instanceVars, repeatVars, concVars>>

\* a process_pdf that uploads the redacted bytes itself
SummarizeUploading ==
    /\ ppc = "summary"
    /\ result' = ResultOf(total_pages, redaction_blocks, write_outcome.bytes)
    /\ uploads' = Append(uploads, write_outcome.bytes)
    /\ ppc' = "finally"
    /\ UNCHANGED <<file_content, handleVars, scanVars, applyVars, write_outcome, exc,
                   outcome, caller, request_ok, stored, hpc, h_exc, response,
                   result_rows, block_rows, metrics_rows, metrics_calls,
                   luhnVars, callVars, instanceVars, repeatVars, concVars>>

\* summary = self._create_summary(redaction_blocks); result = {...}; return result
Summarize ==
    /\ ppc = "summary"
    /\ result' = ResultOf(total_pages, redaction_blocks, write_outcome.bytes)
    /\ ppc' = "finally"
    /\ UNCHANGED <<file_content, handleVars, scanVars, applyVars, write_outcome, exc,
                   outcome, handlerVars, luhnVars, callVars,
                   instanceVars, repeatVars, concVars>>

\* except ValueError as ve: ...; raise ve
ExceptValue ==
    /\ ppc = "except_value"
    /\ ppc' = "finally"
    /\ UNCHANGED <<file_content, handleVars, scanVars, applyVars, endVars,
                   handlerVars, luhnVars, callVars,
                   instanceVars, repeatVars, concVars>>

\* an except clause that logs the error and does not raise again: the call
\* falls off the end of process_pdf
ExceptOtherSwallowing ==
    /\ ppc = "except_other"
    /\ exc' = NoExc
    /\ ppc' = "finally"
    /\ UNCHANGED <<file_content, handleVars, scanVars, applyVars, write_outcome,
                   result, outcome, handlerVars, luhnVars, callVars,
                   instanceVars, repeatVars, concVars>>

\* except Exception as e: ...; raise ValueError(...)
ExceptOther ==
    /\ ppc = "except_other"
    /\ exc' = ConvertError(exc)
    /\ ppc' = "finally"
    /\ UNCHANGED <<file_content, handleVars, scanVars, applyVars, write_outcome,
                   result, outcome, handlerVars, luhnVars, callVars,
                   instanceVars, repeatVars, concVars>>

\* what the caller gets once the finally clause is through
OutcomeOf(e, r) ==
    IF e.cls # "none" THEN [kind |-> "raised", error |-> e]
    ELSE [kind |-> "returned", result |-> r]

\* finally: doc is None
FinallyNoHandle ==
    /\ ppc = "finally"
    /\ doc = "none"
    /\ outcome' = OutcomeOf(exc, result)
    /\ ppc' = "exit"
    /\ UNCHANGED <<file_content, handleVars, scanVars, applyVars, write_outcome, exc,
                   result, handlerVars, luhnVars, callVars,
                   instanceVars, repeatVars, concVars>>

\* a close at the end of the try body instead: skipped when an exception is
\* in flight
FinallyCloseOnSuccessOnly ==
    /\ ppc = "finally"
    /\ doc # "none"
    /\ IF exc.cls = "none"
       THEN /\ close_calls' = close_calls + 1
            /\ \E raises \in BOOLEAN :
                  /\ close_raised' = raises
                  /\ doc' = IF raises THEN "close_failed" ELSE "closed"
       ELSE UNCHANGED <<close_calls, close_raised, doc>>
    /\ outcome' = OutcomeOf(exc, result)
    /\ ppc' = "exit"
    /\ UNCHANGED <<file_content, open_calls, annots, redacted, scanVars, applyVars,
                   write_outcome, exc, result, handlerVars, luhnVars, callVars,
                   instanceVars, repeatVars, concVars>>

\* a finally clause without the try around doc.close(): an exception of close
\* replaces the result or the error on its way to the caller
FinallyClosePropagating ==
    /\ ppc = "finally"
    /\ doc # "none"
    /\ close_calls' = close_calls + 1
    /\ \E raises \in BOOLEAN :
          /\ close_raised' = raises
          /\ doc' = IF raises THEN "close_failed" ELSE "closed"
          /\ outcome' = IF raises
                        THEN [kind |-> "raised", error |-> Error("RuntimeError", "", {"close"})]
                        ELSE OutcomeOf(exc, result)
    /\ ppc' = "exit"
    /\ UNCHANGED <<file_content, open_calls, annots, redacted, scanVars, applyVars,
                   write_outcome, exc, result, handlerVars, luhnVars, callVars,
                   instanceVars, repeatVars, concVars>>

\* finally: doc.close(), whose own exception is logged and dropped
FinallyClose ==
    /\ ppc = "finally"
    /\ doc # "none"
    /\ close_calls' = close_calls + 1
    /\ \E raises \in BOOLEAN :
          /\ close_raised' = raises
          /\ doc' = IF raises THEN "close_failed" ELSE "closed"
    /\ outcome' = OutcomeOf(exc, result)
    /\ ppc' = "exit"
    /\ UNCHANGED <<file_content, open_calls, annots, redacted, scanVars, applyVars,
                   write_outcome, exc, result, handlerVars, luhnVars, callVars,
                   instanceVars, repeatVars, concVars>>

\* The caller calls pdf_processor.process_pdf a second time, on the same bytes:
\* a new frame (doc = None, no local bound yet) on the same instance. The
\* document behaves as in the first call: the same pages fail to be read. The
\* first call returned its result or rejected the file; after a first call whose
\* serialization failed there are no blocks to compare a second call's with.
CallAgain ==
    /\ caller = "direct" /\ ppc = "exit" /\ run = 1
    /\ write_outcome.kind # "raised"
    /\ run' = 2
    /\ first_outcome' = outcome
    /\ ppc' = "validate"
    /\ doc' = "none" /\ open_calls' = 0 /\ close_calls' = 0 /\ close_raised' = FALSE
    /\ annots' = <<>> /\ redacted' = <<>>
    /\ total_pages' = 0 /\ page_num' = 0 /\ redaction_blocks' = <<>> /\ scan_log' = <<>>
    /\ apply_order' = <<>> /\ apply_idx' = 0 /\ apply_log' = <<>>
    /\ write_outcome' = [kind |-> "none"] /\ exc' = NoExc /\ result' = NoResult
    /\ outcome' = NoOutcome
    /\ UNCHANGED <<file_content, handlerVars, luhnVars, callVars, instanceVars, concVars>>

-----------------------------------------------------------------------------
(* process_file, the /process handler, step by step *)

NoResponse == [status |-> 0]
HttpResponse(status, detail) == [status |-> status, detail |-> detail]

DetailMissingFields == "Missing required fields: file_id, bucket, key"
DetailNotInS3 == "File not found in S3"
DetailUploadFailed == "Failed to upload redacted file to S3"
DetailInternal == "Internal server error during file processing"
\* the framework's answer to an exception that leaves the handler
DetailUnhandled == "Internal Server Error"

\* if not all([file_id, bucket, key]): raise HTTPException(400)
HCheckRequest ==
    /\ hpc = "start"
    /\ IF request_ok
       THEN hpc' = "download" /\ response' = response
       ELSE hpc' = "responded" /\ response' = HttpResponse(400, DetailMissingFields)
    /\ UNCHANGED <<caller, request_ok, stored, h_exc, storeVars, procVars, luhnVars, callVars,
                   instanceVars, repeatVars, concVars>>

\* file_content = s3_service.download_file(key); if not file_content: raise
\* HTTPException(404); else the call of process_pdf begins
HDownload ==
    /\ hpc = "download"
    /\ IF stored.kind = "none" \/ Len(stored.bytes) = 0
       THEN /\ hpc' = "responded"
            /\ response' = HttpResponse(404, DetailNotInS3)
            /\ UNCHANGED <<ppc, file_content>>
       ELSE /\ hpc' = "process"
            /\ file_content' = stored
            /\ ppc' = "validate"
            /\ response' = response
    /\ UNCHANGED <<caller, request_ok, stored, h_exc, storeVars, handleVars, scanVars,
                   applyVars, endVars, luhnVars, callVars,
                   instanceVars, repeatVars, concVars>>

\* result = pdf_processor.process_pdf(...) returns, or raises into except Exception
HProcessReturn ==
    /\ hpc = "process"
    /\ ppc = "exit"
    /\ IF outcome.kind = "returned"
       THEN hpc' = "upload" /\ h_exc' = h_exc
       ELSE hpc' = "except" /\ h_exc' = outcome.error
    /\ UNCHANGED <<caller, request_ok, stored, response, storeVars, procVars, luhnVars, callVars,
                   instanceVars, repeatVars, concVars>>

\* upload_ok = s3_service.upload_file(result['redacted_bytes'], ...)
HUploadOk ==
    /\ hpc = "upload"
    /\ uploads' = Append(uploads, outcome.result.redacted_bytes)
    /\ hpc' = "insert_result"
    /\ UNCHANGED <<caller, request_ok, stored, h_exc, response, result_rows, block_rows,
                   metrics_rows, metrics_calls, procVars, luhnVars, callVars,
                   instanceVars, repeatVars, concVars>>

\* a handler that does not look at upload_ok: the upload failed and the
\* handler goes on to the database writes
HUploadFailureIgnored ==
    /\ hpc = "upload"
    /\ hpc' = "insert_result"
    /\ UNCHANGED <<caller, request_ok, stored, h_exc, response, storeVars, procVars,
                   luhnVars, callVars, instanceVars, repeatVars, concVars>>

\* upload_file returned False: HTTPException(500), passed on by except HTTPException
HUploadFails ==
    /\ hpc = "upload"
    /\ response' = HttpResponse(500, DetailUploadFailed)
    /\ hpc' = "responded"
    /\ UNCHANGED <<caller, request_ok, stored, h_exc, storeVars, procVars, luhnVars, callVars,
                   instanceVars, repeatVars, concVars>>

DatabaseError == Error("DatabaseError", "", {})

\* clickhouse_client.insert_redaction_result(db_data)
HInsertResult ==
    /\ hpc = "insert_result"
    /\ \/ /\ result_rows' = Append(result_rows,
                [total_pages |-> outcome.result.total_pages,
                 total_redactions |-> outcome.result.summary.total_redactions,
                 redactions_by_reason |-> outcome.result.summary.redactions_by_reason,
                 confidence_scores |-> outcome.result.summary.confidence_scores])
          /\ hpc' = "insert_blocks"
          /\ h_exc' = h_exc
       \/ /\ h_exc' = DatabaseError
          /\ hpc' = "except"
          /\ result_rows' = result_rows
    /\ UNCHANGED <<caller, request_ok, stored, response, uploads, block_rows,
                   metrics_rows, metrics_calls, procVars, luhnVars, callVars,
                   instanceVars, repeatVars, concVars>>

\* clickhouse_client.insert_redaction_blocks(file_id, blocks_data): nothing is
\* inserted for an empty list
HInsertBlocks ==
    /\ hpc = "insert_blocks"
    /\ \/ /\ block_rows' = block_rows \o outcome.result.redaction_blocks
          /\ hpc' = "insert_metrics"
          /\ h_exc' = h_exc
       \/ /\ outcome.result.redaction_blocks # <<>>
          /\ h_exc' = DatabaseError
          /\ hpc' = "except"
          /\ block_rows' = block_rows
    /\ UNCHANGED <<caller, request_ok, stored, response, uploads, result_rows,
                   metrics_rows, metrics_calls, procVars, luhnVars, callVars,
                   instanceVars, repeatVars, concVars>>

SuccessMetrics(r) ==
    [success |-> 1, redaction_count |-> r.summary.total_redactions, error_message |-> NoExc]
\* a failure row that is marked as a success
FailureMetricsMarkedSuccess(e) ==
    [success |-> 1, redaction_count |-> 0, error_message |-> e]
FailureMetrics(e) ==
    [success |-> 0, redaction_count |-> 0, error_message |-> e]

\* clickhouse_client.insert_metrics(metrics_data), success = 1
HInsertMetrics ==
    /\ hpc = "insert_metrics"
    /\ metrics_calls' = Append(metrics_calls, SuccessMetrics(outcome.result))
    /\ \/ /\ metrics_rows' = Append(metrics_rows, SuccessMetrics(outcome.result))
          /\ hpc' = "respond"
          /\ h_exc' = h_exc
       \/ /\ h_exc' = DatabaseError
          /\ hpc' = "except"
          /\ metrics_rows' = metrics_rows
    /\ UNCHANGED <<caller, request_ok, stored, response, uploads, result_rows,
                   block_rows, procVars, luhnVars, callVars,
                   instanceVars, repeatVars, concVars>>

\* return api_response
HRespond ==
    /\ hpc = "respond"
    /\ response' = [status |-> 200, detail |-> "success",
                    total_pages |-> outcome.result.total_pages,
                    redaction_blocks |-> outcome.result.redaction_blocks,
                    summary |-> outcome.result.summary]
    /\ hpc' = "responded"
    /\ UNCHANGED <<caller, request_ok, stored, h_exc, storeVars, procVars, luhnVars, callVars,
                   instanceVars, repeatVars, concVars>>

\* except Exception as e: the failure metrics, then HTTPException(500); when
\* the insert raises, its exception leaves the handler instead
HExcept ==
    /\ hpc = "except"
    /\ metrics_calls' = Append(metrics_calls, FailureMetrics(h_exc))
    /\ \/ /\ metrics_rows' = Append(metrics_rows, FailureMetrics(h_exc))
          /\ response' = HttpResponse(500, DetailInternal)
       \/ /\ metrics_rows' = metrics_rows
          /\ response' = HttpResponse(500, DetailUnhandled)
    /\ hpc' = "responded"
    /\ UNCHANGED <<caller, request_ok, stored, h_exc, uploads, result_rows, block_rows,
                   procVars, luhnVars, callVars,
                   instanceVars, repeatVars, concVars>>

-----------------------------------------------------------------------------
(* The specification of a request, or of a direct call of process_pdf *)

ProcIdle ==
    /\ doc = "none" /\ open_calls = 0 /\ close_calls = 0 /\ close_raised = FALSE
    /\ annots = <<>> /\ redacted = <<>>
    /\ total_pages = 0 /\ page_num = 0 /\ redaction_blocks = <<>> /\ scan_log = <<>>
    /\ apply_order = <<>> /\ apply_idx = 0 /\ apply_log = <<>>
    /\ write_outcome = [kind |-> "none"] /\ exc = NoExc /\ result = NoResult
    /\ outcome = NoOutcome

StoresEmpty ==
    /\ uploads = <<>> /\ result_rows = <<>> /\ block_rows = <<>>
    /\ metrics_rows = <<>> /\ metrics_calls = <<>>

LuhnIdle == card_number = <<>> /\ luhn_pc = "idle" /\ luhn_result = FALSE

CallIdle == call_fn = "none" /\ call_arg = <<>> /\ call_pc = "idle" /\ call_ret = NoOutcome

\* the instance after PDFProcessor.__init__, and before any call on it
InstanceNew == patterns = PatternOrder /\ run = 1 /\ first_outcome = NoOutcome

ConcIdle == calls = <<>> /\ handles = <<>>

\* process_pdf called by a test or a script, on any file
InitDirect ==
    /\ caller = "direct" /\ hpc = "direct" /\ request_ok = TRUE
    /\ stored \in Files
    /\ file_content = stored
    /\ ppc = "validate"

\* a /process request: the fields may be missing, the key may name no object
InitHandler ==
    /\ caller = "handler" /\ hpc = "start"
    /\ \/ request_ok = FALSE /\ stored = NoFile
       \/ request_ok = TRUE /\ stored \in Files \cup {NoFile}
    /\ file_content = NoFile
    /\ ppc = "idle"

Init ==
    /\ InitDirect \/ InitHandler
    /\ h_exc = NoExc /\ response = NoResponse
    /\ StoresEmpty /\ ProcIdle /\ LuhnIdle /\ CallIdle /\ InstanceNew /\ ConcIdle

Next ==
    \/ Validate \/ Open \/ CheckPages \/ ScanPage \/ ApplyBegin \/ ApplyPage
    \/ WriteOk \/ WriteRaises \/ Summarize \/ ExceptValue \/ ExceptOther
    \/ FinallyNoHandle \/ FinallyClose \/ CallAgain
    \/ HCheckRequest \/ HDownload \/ HProcessReturn \/ HUploadOk \/ HUploadFails
    \/ HInsertResult \/ HInsertBlocks \/ HInsertMetrics \/ HRespond \/ HExcept

Spec == Init /\ [][Next]_vars

\* process_pdf called directly, with the interpreter going on: a call that
\* has a next statement executes it
InitProcess == Init /\ caller = "direct"

NextProcess ==
    \/ Validate \/ Open \/ CheckPages \/ ScanPage \/ ApplyBegin \/ ApplyPage
    \/ WriteOk \/ WriteRaises \/ Summarize \/ ExceptValue \/ ExceptOther
    \/ FinallyNoHandle \/ FinallyClose \/ CallAgain

SpecProcess == InitProcess /\ [][NextProcess]_vars /\ WF_vars(NextProcess)

-----------------------------------------------------------------------------
(* Specification of the Luhn check alone, filled in below *)

DigitStrings ==
    UNION { [1..n -> Digit] : n \in 0..MaxDigits }
      \cup { <<4, 1, 1, 1, 1, 1, 1, 1, 1, 1, 1, 1, 1, 1, 1, 1>>,
             <<4, 1, 1, 1, 1, 1, 1, 1, 1, 1, 1, 1, 1, 1, 1, 2>>,
             <<7, 9, 9, 2, 7, 3, 9, 8, 7, 1, 3>> }

\* a call of _is_valid_credit_card on a digit string
IsValidCreditCardCall ==
    /\ luhn_pc = "call"
    /\ luhn_result' = IsValidCreditCard(card_number)
    /\ luhn_pc' = "done"
    /\ UNCHANGED <<card_number, handlerVars, procVars, callVars, instanceVars, repeatVars, concVars>>

InitLuhn ==
    /\ card_number \in DigitStrings /\ luhn_pc = "call" /\ luhn_result = FALSE
    /\ caller = "none" /\ hpc = "none" /\ request_ok = FALSE /\ stored = NoFile
    /\ file_content = NoFile /\ ppc = "idle"
    /\ h_exc = NoExc /\ response = NoResponse
    /\ StoresEmpty /\ ProcIdle /\ CallIdle /\ InstanceNew /\ ConcIdle

NextLuhn == IsValidCreditCardCall

SpecLuhn == InitLuhn /\ [][NextLuhn]_vars

-----------------------------------------------------------------------------
(* Specification of calls of _calculate_confidence, _create_summary and     *)
(* detect_content on their own                                             *)

\* the longest list of blocks passed to _create_summary
MaxBlocks == 3

\* the members of RedactionReason
Reasons == {"email", "ssn", "credit_card", "phone_number", "date_of_birth",
            "address", "name", "account_number", "custom"}

\* two card numbers that pass the Luhn check
CardVisa == <<"4", "1", "1", "1", "1", "1", "1", "1", "1", "1", "1", "1", "1", "1", "1", "1">>
CardMaster == <<"5", "5", "0", "0", "0", "0", "5", "5", "5", "5", "5", "5", "5", "5", "5", "9">>
ValidCards == {CardVisa, CardMaster}

\* a card number with one digit replaced by another
AlteredCards(card) ==
    { [card EXCEPT ![i] = d] : i \in 1..Len(card), d \in DigitChars } \ {card}

\* four groups of four digits, sep between them
Grouped(card, sep) ==
    SubSeq(card, 1, 4) \o sep \o SubSeq(card, 5, 8) \o sep \o SubSeq(card, 9, 12)
      \o sep \o SubSeq(card, 13, 16)

\* the separators [-\s] allows, and none
Separators == { <<"-">>, <<" ">>, <<"\t">>, <<>> }

CardTexts ==
    { Grouped(c, <<"-">>) : c \in ValidCards \cup UNION { AlteredCards(v) : v \in ValidCards } }
      \cup { Grouped(c, sep) : c \in ValidCards, sep \in Separators }

TextPhone == <<"5", "5", "5", "-", "1", "2", "3", "-", "4", "5", "6", "7">>
TextBirth == <<"1", "2", "-", "3", "1", "-", "1", "9", "8", "5">>
TextAccount == <<"1", "2", "3", "4", "5", "6", "7", "8">>
TextWords == <<"n", "o", " ", "d", "a", "t", "a", ".">>
TextEmailAndSsn == TextEmail \o <<" ">> \o TextSsn
\* two matches of one pattern in one text
TextTwoAccounts == TextAccount \o <<" ">> \o TextAccount

SampleTexts == {TextEmail, TextSsn, TextNine, TextPhone, TextBirth, TextAccount, TextPlain}

\* text is what the category's pattern matches, from its first to its last
\* character; a category without a pattern is given the sample texts by hand
Matched(reason, text) ==
    IF reason \in SeqRange(PatternOrder) THEN FindIter(reason, text, 1) = <<text>>
    ELSE text \in SampleTexts

\* self._calculate_confidence(reason, match.group())
ConfidenceArgs ==
    { a \in [reason : Reasons, text : SampleTexts \cup CardTexts] : Matched(a.reason, a.text) }

\* a RedactionBlock of the given page, category and confidence (in hundredths)
SummaryBlock(page, reason, confidence) ==
    [page_number |-> page, x |-> 0, y |-> 0, width |-> 1, height |-> 1,
     reason |-> reason, confidence |-> confidence, original_text |-> <<>>]

BlockPool ==
    { SummaryBlock(1, "email", 95), SummaryBlock(1, "ssn", 90), SummaryBlock(2, "email", 85),
      SummaryBlock(2, "account_number", 70), SummaryBlock(3, "phone_number", 80) }

BlockLists == UNION { [1..n -> BlockPool] : n \in 0..MaxBlocks }

\* the texts detect_content is called on
DetectTexts ==
    { <<>>, TextBlank, TextPlain, TextWords, TextEmail, TextSsn, TextNine, TextPhone,
      TextBirth, TextAccount, TextEmailAndSsn, TextTwoAccounts }
      \cup { Grouped(CardVisa, sep) : sep \in Separators }
      \cup { Grouped([CardVisa EXCEPT ![16] = "2"], <<"-">>) }

Returned(value) == [kind |-> "returned", value |-> value]
Raised(error) == [kind |-> "raised", error |-> error]

\* int(d) on a character that is no digit
MsgInvalidLiteral == "invalid literal for int() with base 10"

CalculateConfidenceCall ==
    /\ call_pc = "call" /\ call_fn = "_calculate_confidence"
    /\ call_ret' = IF ConfidenceRaises(call_arg.reason, call_arg.text)
                   THEN Raised(Error("ValueError", MsgInvalidLiteral, {}))
                   ELSE Returned(ConfidenceValue(call_arg.reason, call_arg.text))
    /\ call_pc' = "done"
    /\ UNCHANGED <<call_fn, call_arg, handlerVars, procVars, luhnVars, instanceVars,
                   repeatVars, concVars>>

CreateSummaryCall ==
    /\ call_pc = "call" /\ call_fn = "_create_summary"
    /\ call_ret' = Returned(CreateSummary(call_arg))
    /\ call_pc' = "done"
    /\ UNCHANGED <<call_fn, call_arg, handlerVars, procVars, luhnVars, instanceVars,
                   repeatVars, concVars>>

DetectContentCall ==
    /\ call_pc = "call" /\ call_fn = "detect_content"
    /\ call_ret' = IF DetectContentRaises(call_arg)
                   THEN Raised(Error("ValueError", MsgInvalidLiteral, {}))
                   ELSE Returned(DetectContent(call_arg))
    /\ call_pc' = "done"
    /\ UNCHANGED <<call_fn, call_arg, handlerVars, procVars, luhnVars, instanceVars,
                   repeatVars, concVars>>

InitCalls ==
    /\ call_pc = "call" /\ call_ret = NoOutcome
    /\ \/ call_fn = "_calculate_confidence" /\ call_arg \in ConfidenceArgs
       \/ call_fn = "_create_summary" /\ call_arg \in BlockLists
       \/ call_fn = "detect_content" /\ call_arg \in DetectTexts
    /\ caller = "none" /\ hpc = "none" /\ request_ok = FALSE /\ stored = NoFile
    /\ file_content = NoFile /\ ppc = "idle"
    /\ h_exc = NoExc /\ response = NoResponse
    /\ StoresEmpty /\ ProcIdle /\ LuhnIdle /\ InstanceNew /\ ConcIdle

NextCalls == CalculateConfidenceCall \/ CreateSummaryCall \/ DetectContentCall

SpecCalls == InitCalls /\ [][NextCalls]_vars

-----------------------------------------------------------------------------
(* Properties *)

\* process_pdf was called on a file, and fitz.open returned a handle for it
Opened == file_content.kind = "file" /\ open_calls = 1 /\ file_content.open.ok

\* the positions of process_pdf after the apply step
AfterApply == {"write", "summary", "except_value", "except_other", "finally", "exit"}

\* what detect_content returns on a span's text with the pattern table of
\* __init__, and whether it raises on it; a blank span is not handed to it
MatchesOfSpan(span) ==
    IF IsBlank(span.text) THEN <<>> ELSE DetectedOnSpanTexts[span.text].items

SpanRaises(span) == ~IsBlank(span.text) /\ DetectedOnSpanTexts[span.text].raises

\* the blocks of the spans of a page from the k-th on
RECURSIVE BlocksFrom(_, _, _)
BlocksFrom(page, page_index, k) ==
    IF k > Len(page.spans) THEN <<>>
    ELSE SpanBlocks(page_index, page.spans[k], MatchesOfSpan(page.spans[k]))
           \o BlocksFrom(page, page_index, k + 1)

\* the number of matches on the spans 1..k of a page
RECURSIVE MatchCount(_, _)
MatchCount(page, k) ==
    IF k = 0 THEN 0 ELSE MatchCount(page, k - 1) + Len(MatchesOfSpan(page.spans[k]))

\* the scan of each page, worked out once: whether it raises, the matches of
\* each span, their number up to each span, and the blocks the page gives at
\* each page index (none when the scan raises)
ScanOnPages ==
    [page \in Pages |->
        LET raises == page.scan_fault \/ \E k \in 1..Len(page.spans) : SpanRaises(page.spans[k])
        IN  [raises |-> raises,
             matches |-> [k \in 1..Len(page.spans) |->
                             IF raises THEN <<>> ELSE MatchesOfSpan(page.spans[k])],
             through |-> [k \in 0..Len(page.spans) |->
                             IF raises THEN 0 ELSE MatchCount(page, k)],
             blocks |-> [i \in 0..(MaxPages - 1) |->
                            IF raises THEN <<>> ELSE BlocksFrom(page, i, 1)]]]

\* the blocks a page's scan gives: none when the scan raises
ScannedBlocks(i) == ScanOnPages[file_content.pages[i + 1]].blocks[i]

\* the pages (0-based) that have at least one collected block
PagesWithBlocks == { i \in 0..(total_pages - 1) : BlocksOfPage(redaction_blocks, i) # <<>> }

\* C1: on every path of process_pdf on which fitz.open returned a handle
\* (return, the zero-page error, an error of serialization), doc.close() has
\* been called exactly once when control is back at the caller, never more
\* than once before, and never when no handle was opened.
C1_CloseExactlyOnce ==
    /\ close_calls <= 1
    /\ (ppc = "exit" /\ Opened) => (close_calls = 1 /\ doc \in {"closed", "close_failed"})
    /\ (ppc # "exit" \/ ~ Opened) => close_calls = 0

C1_Witness ==
    /\ ppc = "exit" /\ Opened /\ outcome.kind = "raised"
    /\ write_outcome.kind = "raised" /\ close_calls = 1

\* C2: a page whose scan raises is skipped and nothing else: no exception is
\* in flight during the scan, every page is scanned in turn, the blocks of
\* each page whose scan succeeded (before and after the failing one) are in
\* redaction_blocks, and the call returns them unless serialization fails.
C2_ScanFailureSkipsPage ==
    (file_content.kind = "file" /\ total_pages > 0) =>
        /\ \A i \in 0..(page_num - 1) :
              BlocksOfPage(redaction_blocks, i) = ScannedBlocks(i)
        /\ ppc = "scan" => (exc = NoExc /\ page_num < total_pages)
        /\ ppc # "scan" => page_num = total_pages
        /\ ppc \in {"apply", "apply_page", "write", "summary"} => exc = NoExc
        /\ (ppc = "exit" /\ write_outcome.kind # "raised") =>
              /\ outcome.kind = "returned"
              /\ \A i \in 0..(total_pages - 1) :
                    BlocksOfPage(outcome.result.redaction_blocks, i) = ScannedBlocks(i)

C2_Witness ==
    /\ ppc = "exit" /\ outcome.kind = "returned" /\ total_pages = 3
    /\ ScanRaises(file_content.pages[2])
    /\ BlocksOfPage(outcome.result.redaction_blocks, 0) # <<>>
    /\ BlocksOfPage(outcome.result.redaction_blocks, 1) = <<>>
    /\ BlocksOfPage(outcome.result.redaction_blocks, 2) # <<>>

\* C3: a page whose redactions cannot be applied does not end the call: once
\* the apply step is over every page that has blocks has been visited exactly
\* once, and unless serialization fails the call returns a result in which
\* the blocks of the failed pages are still listed and counted.
C3_ApplyFailureKeepsBlocks ==
    (file_content.kind = "file" /\ total_pages > 0 /\ ppc \in AfterApply) =>
        /\ { apply_log[j][1] : j \in 1..Len(apply_log) } = PagesWithBlocks
        /\ Len(apply_log) = Cardinality(PagesWithBlocks)
        /\ \A j \in 1..Len(apply_log) :
              (apply_log[j][2] = "failed")
                  = (file_content.pages[apply_log[j][1] + 1].apply_fault # "none")
        /\ (ppc = "exit" /\ write_outcome.kind # "raised") =>
              /\ outcome.kind = "returned"
              /\ outcome.result.redaction_blocks = redaction_blocks
              /\ \A i \in PagesWithBlocks :
                    BlocksOfPage(outcome.result.redaction_blocks, i) = ScannedBlocks(i)
              /\ outcome.result.summary.total_redactions
                    = SumSeq([i \in 1..total_pages |-> Len(ScannedBlocks(i - 1))])

C3_Witness ==
    /\ ppc = "exit" /\ outcome.kind = "returned"
    /\ \E j \in 1..Len(apply_log) : \E l \in 1..Len(apply_log) :
          /\ j < l /\ apply_log[j][2] = "failed" /\ apply_log[l][2] = "ok"
          /\ BlocksOfPage(outcome.result.redaction_blocks, apply_log[j][1]) # <<>>
    /\ outcome.result.summary.total_redactions = Len(redaction_blocks)

\* C4: for an input of fewer than 4 bytes, or one that does not begin with
\* %PDF, fitz.open is never called and no handle exists, and process_pdf ends
\* by raising the ValueError of an invalid file.
C4_BadHeaderNeverOpened ==
    (file_content.kind = "file"
        /\ (Len(file_content.bytes) < 4 \/ SubSeq(file_content.bytes, 1, 4) # PdfSignature)) =>
        /\ open_calls = 0
        /\ doc = "none"
        /\ ppc \in {"validate", "except_value", "finally", "exit"}
        /\ ppc = "exit" =>
              outcome = [kind |-> "raised",
                         error |-> Error("ValueError", MsgInvalidHeader, {})]

C4_Witness ==
    /\ ppc = "exit" /\ outcome.kind = "raised" /\ open_calls = 0
    /\ Len(file_content.bytes) >= 4 /\ SubSeq(file_content.bytes, 1, 4) # PdfSignature

\* C5: a document that opens and reports zero pages is never scanned, applied
\* to or serialized, and process_pdf ends by raising the ValueError of an
\* empty file.
C5_ZeroPagesRejected ==
    (file_content.kind = "file" /\ doc # "none" /\ Len(file_content.pages) = 0) =>
        /\ ppc \in {"check_pages", "except_value", "finally", "exit"}
        /\ scan_log = <<>> /\ apply_log = <<>> /\ redaction_blocks = <<>>
        /\ write_outcome.kind = "none" /\ result = NoResult
        /\ ppc = "exit" =>
              outcome = [kind |-> "raised", error |-> Error("ValueError", MsgNoPages, {})]

C5_Witness ==
    /\ ppc = "exit" /\ Opened /\ Len(file_content.pages) = 0
    /\ outcome.kind = "raised" /\ outcome.error.msg = MsgNoPages

\* the words of the message fitz.open raised with
OpenWords == file_content.open.words
SaysPassword == "Password" \in OpenWords \/ "password" \in OpenWords
SaysCorrupt == "corrupted" \in OpenWords \/ "damaged" \in OpenWords

\* C6: when fitz.open raises, process_pdf never reaches the scan and ends by
\* raising a ValueError: the password one when the message contains
\* "password" in any case, else the corrupted one when it contains "corrupt"
\* or "damaged", else the unable-to-open one, which carries the message.
C6_OpenFailureClassified ==
    (file_content.kind = "file" /\ open_calls = 1 /\ ~ file_content.open.ok) =>
        /\ ppc \in {"except_value", "finally", "exit"}
        /\ doc = "none" /\ scan_log = <<>> /\ total_pages = 0
        /\ ppc = "exit" =>
              /\ outcome.kind = "raised"
              /\ outcome.error.cls = "ValueError"
              /\ SaysPassword => outcome.error = Error("ValueError", MsgPassword, {})
              /\ (~ SaysPassword /\ SaysCorrupt) =>
                    outcome.error = Error("ValueError", MsgCorrupted, {})
              /\ (~ SaysPassword /\ ~ SaysCorrupt) =>
                    outcome.error = Error("ValueError", MsgUnableToOpen, OpenWords)

C6_Witness ==
    /\ ppc = "exit" /\ open_calls = 1 /\ ~ file_content.open.ok
    /\ OpenWords = {"Password", "xref"}
    /\ outcome.kind = "raised" /\ outcome.error.msg = MsgPassword

\* the errors process_pdf raises for bad input
ValidationMessages == {MsgInvalidHeader, MsgPassword, MsgCorrupted, MsgUnableToOpen, MsgNoPages}

\* C7: when doc.write() raises after a successful open and scan, process_pdf
\* raises an error of a class other than the class of its validation errors.
C7_SerializeErrorHasOwnClass ==
    (ppc = "exit" /\ Opened /\ write_outcome.kind = "raised") =>
        /\ outcome.kind = "raised"
        /\ outcome.error.cls # "ValueError"

\* C8: when process_pdf raised a validation error, the handler's response has
\* a 4xx status and carries the validation message.
C8_ValidationErrorIs4xx ==
    (hpc = "responded" /\ outcome.kind = "raised" /\ write_outcome.kind = "none"
        /\ outcome.error.msg \in ValidationMessages) =>
        /\ response.status \in 400..499
        /\ response.detail = outcome.error.msg

\* C9: when process_pdf raised an internal error (serialization failed), the
\* handler has, by the time it responds, handed exactly one row to
\* insert_metrics, with success = 0 and redaction_count = 0 (the only row of
\* the metrics table, unless the insert itself raised), responds with a 5xx
\* status, and has uploaded nothing and written no result or block row.
C9_InternalErrorMetricsThen5xx ==
    (caller = "handler" /\ ppc = "exit" /\ outcome.kind = "raised"
        /\ write_outcome.kind = "raised") =>
        /\ uploads = <<>> /\ result_rows = <<>> /\ block_rows = <<>>
        /\ hpc \in {"process", "except", "responded"}
        /\ hpc # "responded" => (metrics_calls = <<>> /\ response = NoResponse)
        /\ hpc = "responded" =>
              /\ Len(metrics_calls) = 1
              /\ metrics_calls[1].success = 0
              /\ metrics_calls[1].redaction_count = 0
              /\ metrics_rows \in {metrics_calls, <<>>}
              /\ response.status \in 500..599
              /\ metrics_rows = metrics_calls <=> response.detail = DetailInternal

C9_Witness ==
    /\ hpc = "responded" /\ outcome.kind = "raised" /\ write_outcome.kind = "raised"
    /\ Len(metrics_rows) = 1 /\ metrics_rows[1].success = 0
    /\ response.status = 500

\* the Luhn total as the standard states it: from the rightmost digit moving
\* left, every second digit doubled, 9 taken off a doubled digit above 9
LuhnTotal(digits) ==
    SumSeq([i \in 1..Len(digits) |->
               IF (Len(digits) - i) % 2 = 1
               THEN IF digits[i] * 2 > 9 THEN digits[i] * 2 - 9 ELSE digits[i] * 2
               ELSE digits[i]])

Visa4111Valid == <<4, 1, 1, 1, 1, 1, 1, 1, 1, 1, 1, 1, 1, 1, 1, 1>>
Visa4111Invalid == <<4, 1, 1, 1, 1, 1, 1, 1, 1, 1, 1, 1, 1, 1, 1, 2>>

\* C10: _is_valid_credit_card returns true exactly when the Luhn total of the
\* digit string is divisible by 10; 4111111111111111 is valid and
\* 4111111111111112 is not.
C10_LuhnValidIffTotalDivisible ==
    luhn_pc = "done" =>
        /\ luhn_result = (LuhnTotal(card_number) % 10 = 0)
        /\ card_number = Visa4111Valid => luhn_result = TRUE
        /\ card_number = Visa4111Invalid => luhn_result = FALSE

C10_Witness ==
    /\ luhn_pc = "done" /\ card_number = Visa4111Valid /\ luhn_result = TRUE

-----------------------------------------------------------------------------
(* Specification of calls of pdf_processor.process_pdf that run at the same
   time, on threads that share the global instance. Each call has its own
   frame; fitz.open gives each a document of its own. The steps of a call are
   the stretches of process_pdf between two uses of its document. *)

NumCalls == 2
Callers == 1..NumCalls

\* the files of the calls, each with what doc.write() does on it: NoExc when it
\* returns the bytes, or the exception it raises
ConcurrentInputs ==
    { <<FileOf(<<"%", "P", "D">>, Opens, <<>>), NoExc>>,
      <<FileOf(HeaderPdf14, OpenRaises({"Password"}), <<>>), NoExc>>,
      <<FileOf(HeaderPdf14, Opens, <<>>), NoExc>>,
      <<FileOf(HeaderPdf14, Opens, <<PageOf(SpansEmail, FALSE, "none")>>), NoExc>>,
      <<FileOf(HeaderPdf14, Opens,
               <<PageOf(SpansEmail, TRUE, "none"), PageOf(SpansMixed, FALSE, "last")>>), NoExc>>,
      <<FileOf(HeaderPdf14, Opens, <<PageOf(SpansSsn, FALSE, "none")>>),
        Error("RuntimeError", "", {"Memory"})>> }

\* the frame of a call that has not taken a step: doc = None
NewCall(input) ==
    [pc |-> "start", file |-> input[1], write_fault |-> input[2], doc |-> 0,
     page_num |-> 0, redaction_blocks |-> <<>>, apply_idx |-> 0,
     exc |-> NoExc, result |-> NoResult, outcome |-> NoOutcome]

\* the document fitz.open returns; users: the calls that have used it
NewHandle(c, page_count) ==
    [opened_by |-> c, is_closed |-> FALSE, users |-> {c},
     annots |-> [p \in 0..(page_count - 1) |-> <<>>],
     redacted |-> [p \in 0..(page_count - 1) |-> <<>>]]

\* fitz raises on every use of a closed document
MsgDocumentClosed == "document closed"

Used(handle, c) == [handle EXCEPT !.users = @ \cup {c}]

\* validation, fitz.open and the page count check
ConcStart(c) ==
    /\ calls[c].pc = "start"
    /\ LET f == calls[c].file IN
       IF ~ ValidatePdfHeader(f.bytes)
       THEN /\ calls' = [calls EXCEPT ![c].exc = Error("ValueError", MsgInvalidHeader, {}),
                                      ![c].pc = "finally"]
            /\ handles' = handles
       ELSE IF ~ f.open.ok
       THEN /\ calls' = [calls EXCEPT ![c].exc = OpenErrorOf(f.open.words),
                                      ![c].pc = "finally"]
            /\ handles' = handles
       ELSE /\ handles' = Append(handles, NewHandle(c, Len(f.pages)))
            /\ calls' = [calls EXCEPT
                  ![c].doc = Len(handles) + 1,
                  ![c].exc = IF Len(f.pages) = 0
                             THEN Error("ValueError", MsgNoPages, {}) ELSE NoExc,
                  ![c].pc = IF Len(f.pages) = 0 THEN "finally" ELSE "scan"]
    /\ UNCHANGED <<handlerVars, procVars, luhnVars, callVars, instanceVars, repeatVars>>

\* one iteration of the scan loop, on the call's own doc
ConcScanPage(c) ==
    /\ calls[c].pc = "scan"
    /\ LET f == calls[c].file
           n == calls[c].page_num
           page == f.pages[n + 1]
           raises == handles[calls[c].doc].is_closed \/ ScanRaises(page)
           blocks == IF raises THEN calls[c].redaction_blocks
                     ELSE calls[c].redaction_blocks \o ProcessPage(page, n)
       IN  /\ calls' = [calls EXCEPT
                 ![c].redaction_blocks = blocks,
                 ![c].page_num = n + 1,
                 ![c].pc = IF n + 1 < Len(f.pages) THEN "scan"
                           ELSE IF blocks = <<>> THEN "write" ELSE "apply_page"]
           /\ handles' = [handles EXCEPT ![calls[c].doc] = Used(@, c)]
    /\ UNCHANGED <<handlerVars, procVars, luhnVars, callVars, instanceVars, repeatVars>>

\* one iteration of the loop of _apply_redactions, on the call's own doc
ConcApplyPage(c) ==
    /\ calls[c].pc = "apply_page"
    /\ LET order == PageKeys(calls[c].redaction_blocks, {})
           k == order[calls[c].apply_idx + 1]
           page == calls[c].file.pages[k + 1]
           rects == RectsOf(BlocksOfPage(calls[c].redaction_blocks, k))
           h == handles[calls[c].doc]
           after ==
               CASE h.is_closed -> h
                 [] page.apply_fault = "none" ->
                      [h EXCEPT !.redacted[k] = @ \o rects]
                 [] page.apply_fault = "last" ->
                      [h EXCEPT !.annots[k] = @ \o SubSeq(rects, 1, Len(rects) - 1)]
                 [] page.apply_fault = "commit" ->
                      [h EXCEPT !.annots[k] = @ \o rects]
       IN  /\ handles' = [handles EXCEPT ![calls[c].doc] = Used(after, c)]
           /\ calls' = [calls EXCEPT
                 ![c].apply_idx = @ + 1,
                 ![c].pc = IF calls[c].apply_idx + 1 = Len(order)
                           THEN "write" ELSE "apply_page"]
    /\ UNCHANGED <<handlerVars, procVars, luhnVars, callVars, instanceVars, repeatVars>>

\* doc.write(), the summary and the result, or the except clauses
ConcWrite(c) ==
    /\ calls[c].pc = "write"
    /\ LET h == handles[calls[c].doc]
           w == calls[c].write_fault
       IN  /\ calls' = [calls EXCEPT
                 ![c].exc =
                     IF h.is_closed THEN Error("ValueError", MsgDocumentClosed, {})
                     ELSE IF w.cls = "none" THEN NoExc
                     ELSE IF w.cls = "ValueError" THEN w
                     ELSE ConvertError(w),
                 ![c].result =
                     IF h.is_closed \/ w.cls # "none" THEN NoResult
                     ELSE ResultOf(Len(calls[c].file.pages), calls[c].redaction_blocks,
                                   [pages |-> Len(calls[c].file.pages),
                                    annots |-> h.annots, redacted |-> h.redacted]),
                 ![c].pc = "finally"]
           /\ handles' = [handles EXCEPT ![calls[c].doc] = Used(@, c)]
    /\ UNCHANGED <<handlerVars, procVars, luhnVars, callVars, instanceVars, repeatVars>>

\* a finally clause that closes the document opened last on the instance, as
\* when the document is kept in an attribute of the shared processor
ConcFinallyClosingLatest(c) ==
    /\ calls[c].pc = "finally"
    /\ handles' = IF calls[c].doc = 0 THEN handles
                  ELSE [handles EXCEPT ![Len(handles)] = Used([@ EXCEPT !.is_closed = TRUE], c)]
    /\ calls' = [calls EXCEPT ![c].outcome = OutcomeOf(calls[c].exc, calls[c].result),
                              ![c].pc = "exit"]
    /\ UNCHANGED <<handlerVars, procVars, luhnVars, callVars, instanceVars, repeatVars>>

\* the finally clause: doc.close() on the call's own doc, when it has one
ConcFinally(c) ==
    /\ calls[c].pc = "finally"
    /\ handles' = IF calls[c].doc = 0 THEN handles
                  ELSE [handles EXCEPT ![calls[c].doc] = Used([@ EXCEPT !.is_closed = TRUE], c)]
    /\ calls' = [calls EXCEPT ![c].outcome = OutcomeOf(calls[c].exc, calls[c].result),
                              ![c].pc = "exit"]
    /\ UNCHANGED <<handlerVars, procVars, luhnVars, callVars, instanceVars, repeatVars>>

InitConcurrent ==
    /\ calls \in [Callers -> { NewCall(input) : input \in ConcurrentInputs }]
    /\ handles = <<>>
    /\ caller = "none" /\ hpc = "none" /\ request_ok = FALSE /\ stored = NoFile
    /\ file_content = NoFile /\ ppc = "idle"
    /\ h_exc = NoExc /\ response = NoResponse
    /\ StoresEmpty /\ ProcIdle /\ LuhnIdle /\ CallIdle /\ InstanceNew

NextConcurrent ==
    \E c \in Callers :
        \/ ConcStart(c) \/ ConcScanPage(c) \/ ConcApplyPage(c) \/ ConcWrite(c)
        \/ ConcFinally(c)

SpecConcurrent == InitConcurrent /\ [][NextConcurrent]_vars

-----------------------------------------------------------------------------
(* _calculate_confidence *)

\* the base confidences as the specification lists them, in hundredths
ClaimedBase ==
    [email |-> 95, ssn |-> 90, credit_card |-> 85, phone_number |-> 80,
     date_of_birth |-> 75, account_number |-> 70]

\* the text with its dashes and spaces stripped is a digit string whose Luhn
\* total is divisible by 10
PassesLuhn(text) ==
    /\ \A i \in 1..Len(StripSeparators(text)) : StripSeparators(text)[i] \in DigitChars
    /\ LuhnTotal(DigitsOf(StripSeparators(text))) % 10 = 0

DashedValidCards == { Grouped(c, <<"-">>) : c \in ValidCards }
DashedAlteredCards == { Grouped(c, <<"-">>) : c \in UNION { AlteredCards(v) : v \in ValidCards } }

\* C11: for every category and matched text _calculate_confidence returns the
\* category's base confidence, plus 0.10 only for a credit_card text that passes
\* the Luhn check once dashes and spaces are stripped, never more than 1.0; a
\* valid card in four dash-separated groups scores at least 0.95 and the same
\* card with one digit altered scores 0.85.
C11_ConfidenceIsBasePlusLuhnBoost ==
    (call_fn = "_calculate_confidence" /\ call_pc = "done"
        /\ call_arg.reason \in DOMAIN ClaimedBase) =>
        /\ call_ret.kind = "returned"
        /\ call_ret.value =
             DoubleOf[ClaimedBase[call_arg.reason]
                        + (IF call_arg.reason = "credit_card" /\ PassesLuhn(call_arg.text)
                           THEN 10 ELSE 0)]
        /\ FLeq(call_ret.value, DoubleOf[100])
        /\ (call_arg.reason = "credit_card" /\ call_arg.text \in DashedValidCards)
             => FLeq(DoubleOf[95], call_ret.value)
        /\ (call_arg.reason = "credit_card" /\ call_arg.text \in DashedAlteredCards)
             => call_ret.value = DoubleOf[85]

-----------------------------------------------------------------------------
(* Documents without sensitive text *)

\* no fragment of the document matches a pattern
NoFragmentMatches ==
    \A i \in 1..Len(file_content.pages) :
        \A k \in 1..Len(file_content.pages[i].spans) :
            /\ ~Detect(file_content.pages[i].spans[k].text).raises
            /\ Detect(file_content.pages[i].spans[k].text).items = <<>>

\* what _create_summary gives for no blocks
EmptySummary ==
    [total_redactions |-> 0, redactions_by_reason |-> <<>>, pages_affected |-> 0,
     confidence_scores |-> <<>>]

NoAnnotations(handle) == \A p \in DOMAIN handle : handle[p] = <<>>

\* C12: a document that opens with n >= 1 pages and has no fragment matching a
\* pattern gets no redaction annotation, is still serialized (when doc.write()
\* does not fail), and the result has total_pages = n, no blocks and the summary
\* of no blocks.
C12_NoMatchStillSerialized ==
    (ppc = "exit" /\ Opened /\ Len(file_content.pages) >= 1 /\ NoFragmentMatches
        /\ write_outcome.kind # "raised") =>
        /\ NoAnnotations(annots) /\ NoAnnotations(redacted)
        /\ write_outcome.kind = "ok"
        /\ write_outcome.bytes.pages = Len(file_content.pages)
        /\ outcome.kind = "returned"
        /\ outcome.result.redacted_bytes = write_outcome.bytes
        /\ outcome.result.total_pages = Len(file_content.pages)
        /\ outcome.result.redaction_blocks = <<>>
        /\ outcome.result.summary = EmptySummary

C12_Witness ==
    /\ ppc = "exit" /\ Opened /\ Len(file_content.pages) = 2 /\ NoFragmentMatches
    /\ outcome.kind = "returned" /\ outcome.result.total_pages = 2
    /\ outcome.result.redacted_bytes.pages = 2

-----------------------------------------------------------------------------
(* _create_summary *)

RECURSIVE SumOver(_, _)
SumOver(counts, keys) ==
    IF keys = {} THEN 0
    ELSE LET k == CHOOSE x \in keys : TRUE
         IN  counts[k] + SumOver(counts, keys \ {k})

ConfidencesOf(blocks) == [i \in 1..Len(blocks) |-> blocks[i].confidence]

\* the list of the example: confidences 0.95, 0.90 and 0.85
ExampleBlocks ==
    <<SummaryBlock(1, "email", 95), SummaryBlock(1, "ssn", 90), SummaryBlock(2, "email", 85)>>

\* C13: on a non-empty list _create_summary returns total_redactions = the
\* length, per-reason counts that sum to the total, pages_affected = the number
\* of distinct page numbers, the minimum and the maximum of the confidences and
\* an average with minimum <= average <= maximum; for confidences 0.95, 0.90,
\* 0.85 the average is 0.9, the minimum 0.85 and the maximum 0.95.
C13_SummaryStatistics ==
    (call_fn = "_create_summary" /\ call_pc = "done" /\ call_arg # <<>>) =>
        /\ call_ret.kind = "returned"
        /\ LET summary == call_ret.value
               scores == summary.confidence_scores
               given == SeqRange(ConfidencesOf(call_arg))
           IN  /\ summary.total_redactions = Len(call_arg)
               /\ DOMAIN summary.redactions_by_reason
                      = { call_arg[i].reason : i \in 1..Len(call_arg) }
               /\ \A r \in DOMAIN summary.redactions_by_reason :
                      summary.redactions_by_reason[r]
                          = Cardinality({ i \in 1..Len(call_arg) : call_arg[i].reason = r })
               /\ SumOver(summary.redactions_by_reason,
                          DOMAIN summary.redactions_by_reason) = Len(call_arg)
               /\ summary.pages_affected
                      = Cardinality({ call_arg[i].page_number : i \in 1..Len(call_arg) })
               /\ scores.minimum \in given
               /\ \A c \in given : scores.minimum <= c /\ c <= scores.maximum
               /\ scores.maximum \in given
               /\ FLeq(DoubleOf[scores.minimum], scores.average)
               /\ FLeq(scores.average, DoubleOf[scores.maximum])
               /\ call_arg = ExampleBlocks =>
                      /\ scores.average = DoubleOf[90]
                      /\ scores.minimum = 85
                      /\ scores.maximum = 95

-----------------------------------------------------------------------------
(* An e-mail address on page 1 and a social security number on page 2 *)

PagesRead == \A i \in 1..Len(file_content.pages) : ~file_content.pages[i].scan_fault

\* page 1 holds the e-mail address, page 2 the number, written with its dashes
\* or as nine digits in a row
EmailThenSsn(ssn_spans) ==
    /\ Opened /\ Len(file_content.pages) = 2 /\ PagesRead
    /\ file_content.pages[1].spans = SpansEmail
    /\ file_content.pages[2].spans \in ssn_spans

ReasonsOf(blocks) == [i \in 1..Len(blocks) |-> blocks[i].reason]

\* C14 as stated: an e-mail address on page 1 and an SSN-shaped number, with or
\* without dashes, on page 2 give exactly 2 blocks, pages_affected = 2 and
\* redactions_by_reason = {email: 1, ssn: 1}.
C14_TwoBlocksDashedOrNot ==
    (ppc = "exit" /\ EmailThenSsn({SpansSsn, SpansMixed}) /\ write_outcome.kind # "raised") =>
        /\ outcome.kind = "returned"
        /\ Len(outcome.result.redaction_blocks) = 2
        /\ outcome.result.summary.pages_affected = 2
        /\ outcome.result.summary.redactions_by_reason = [r \in {"email", "ssn"} |-> 1]

\* C14 amended: with the number written with its dashes there are exactly 2
\* blocks, email then ssn, and redactions_by_reason = {email: 1, ssn: 1}; with
\* the nine digits in a row the number is reported as ssn and as account_number,
\* 3 blocks and {email: 1, ssn: 1, account_number: 1}; pages_affected = 2 in
\* both cases.
C14_TwoBlocksWhenDashed ==
    (ppc = "exit" /\ EmailThenSsn({SpansSsn, SpansMixed}) /\ write_outcome.kind # "raised") =>
        /\ outcome.kind = "returned"
        /\ outcome.result.summary.pages_affected = 2
        /\ IF file_content.pages[2].spans = SpansSsn
           THEN /\ ReasonsOf(outcome.result.redaction_blocks) = <<"email", "ssn">>
                /\ outcome.result.summary.total_redactions = 2
                /\ outcome.result.summary.redactions_by_reason
                       = [r \in {"email", "ssn"} |-> 1]
           ELSE /\ ReasonsOf(outcome.result.redaction_blocks)
                       = <<"email", "ssn", "account_number">>
                /\ outcome.result.summary.total_redactions = 3
                /\ outcome.result.summary.redactions_by_reason
                       = [r \in {"email", "ssn", "account_number"} |-> 1]

C14_Witness ==
    /\ ppc = "exit" /\ EmailThenSsn({SpansSsn}) /\ outcome.kind = "returned"
    /\ Len(outcome.result.redaction_blocks) = 2
    /\ outcome.result.redaction_blocks[2].original_text = TextSsn
    /\ outcome.result.redaction_blocks[2].page_number = 2

-----------------------------------------------------------------------------
(* Two calls of process_pdf on the same bytes *)

\* C15: a second call of process_pdf on the same bytes, with the same pages
\* failing, gives the same redaction_blocks as the first, position by position
\* (category, original_text, page_number, confidence); a call that ends before
\* serialization ends with the same error as the first.
C15_SecondCallSameBlocks ==
    (run = 2 /\ ppc = "exit") =>
        /\ (outcome.kind = "returned" /\ first_outcome.kind = "returned") =>
               /\ Len(outcome.result.redaction_blocks)
                      = Len(first_outcome.result.redaction_blocks)
               /\ \A i \in 1..Len(outcome.result.redaction_blocks) :
                      LET b == outcome.result.redaction_blocks[i]
                          a == first_outcome.result.redaction_blocks[i]
                      IN  /\ b.reason = a.reason
                          /\ b.original_text = a.original_text
                          /\ b.page_number = a.page_number
                          /\ b.confidence = a.confidence
               /\ outcome.result.summary = first_outcome.result.summary
        /\ write_outcome.kind = "none" => outcome = first_outcome

C15_Witness ==
    /\ run = 2 /\ ppc = "exit" /\ Opened
    /\ outcome.kind = "returned" /\ first_outcome.kind = "returned"
    /\ Len(outcome.result.redaction_blocks) = 3
    /\ "failed" \in SeqRange(scan_log)

-----------------------------------------------------------------------------
(* Who writes to the stores *)

\* process_pdf is running: it was called and has not yet returned or raised
Processing == ppc \notin {"idle", "exit"}

HandlerWrites == {"upload", "insert_result", "insert_blocks", "insert_metrics", "except"}

-----------------------------------------------------------------------------
(* Calls of process_pdf that run at the same time *)

\* the blocks a call on the file returns when it runs alone: the blocks of the
\* pages that are read, in page order
RECURSIVE BlocksAlone(_, _)
BlocksAlone(f, i) ==
    IF i >= Len(f.pages) THEN <<>>
    ELSE (IF ScanRaises(f.pages[i + 1]) THEN <<>> ELSE ProcessPage(f.pages[i + 1], i))
           \o BlocksAlone(f, i + 1)

\* the error a call on the file raises when it runs alone, NoExc when it returns
ErrorAlone(f, w) ==
    IF ~ ValidatePdfHeader(f.bytes) THEN Error("ValueError", MsgInvalidHeader, {})
    ELSE IF ~ f.open.ok THEN OpenErrorOf(f.open.words)
    ELSE IF Len(f.pages) = 0 THEN Error("ValueError", MsgNoPages, {})
    ELSE IF w.cls = "none" THEN NoExc
    ELSE IF w.cls = "ValueError" THEN w
    ELSE ConvertError(w)

\* C17: with calls of process_pdf interleaved in every way on the shared
\* instance, each call that is over has returned the blocks and the summary, or
\* raised the error, of the same call run alone, and every document has been
\* used and closed by the call that opened it only.
C17_ConcurrentCallsIndependent ==
    /\ \A c \in DOMAIN calls :
           calls[c].pc = "exit" =>
               LET e == ErrorAlone(calls[c].file, calls[c].write_fault)
                   blocks == BlocksAlone(calls[c].file, 0)
               IN  IF e.cls # "none"
                   THEN calls[c].outcome = [kind |-> "raised", error |-> e]
                   ELSE /\ calls[c].outcome.kind = "returned"
                        /\ calls[c].outcome.result.redaction_blocks = blocks
                        /\ calls[c].outcome.result.summary = CreateSummary(blocks)
                        /\ calls[c].outcome.result.total_pages = Len(calls[c].file.pages)
    /\ \A c \in DOMAIN calls :
           calls[c].doc # 0 => handles[calls[c].doc].opened_by = c
    /\ \A h \in DOMAIN handles : handles[h].users = {handles[h].opened_by}

\* the call that opened its document second is over, with two blocks, while the
\* one that opened first is still before its doc.write()
C17_Witness ==
    /\ DOMAIN calls = Callers
    /\ calls[1].pc = "exit" /\ calls[1].doc = 2
    /\ calls[1].outcome.kind = "returned"
    /\ Len(calls[1].outcome.result.redaction_blocks) = 2
    /\ handles[2].is_closed
    /\ calls[2].pc = "write" /\ calls[2].doc = 1 /\ ~handles[1].is_closed
    /\ calls[2].redaction_blocks # <<>>

-----------------------------------------------------------------------------
(* detect_content *)

NothingMatches(text) == \A k \in 1..Len(PatternOrder) : FindIter(PatternOrder[k], text, 1) = <<>>

\* C18: detect_content returns a list for every input text and never raises; the
\* list is empty when no pattern matches, the empty string included.
C18_DetectNeverRaises ==
    (call_fn = "detect_content" /\ call_pc = "done") =>
        /\ call_ret.kind = "returned"
        /\ NothingMatches(call_arg) => call_ret.value = <<>>

-----------------------------------------------------------------------------
(* doc.close() raising *)

\* C19: when doc.close() raises, the call ends as it would have without it: a
\* call that had built its result returns that result, a call with an error in
\* flight raises that error, and the exception of close reaches no caller.
C19_CloseFailureSwallowed ==
    (ppc = "exit" /\ close_raised) =>
        /\ doc = "close_failed" /\ close_calls = 1
        /\ IF exc.cls = "none"
           THEN /\ write_outcome.kind = "ok"
                /\ outcome = [kind |-> "returned", result |-> result]
                /\ result.kind = "result"
                /\ result.redaction_blocks = redaction_blocks
                /\ result.redacted_bytes = write_outcome.bytes
           ELSE /\ outcome = [kind |-> "raised", error |-> exc]
                /\ exc.cls = "ValueError"
                /\ \/ exc.msg = MsgNoPages
                   \/ write_outcome.kind = "raised"

C19_Witness ==
    /\ ppc = "exit" /\ close_raised /\ doc = "close_failed"
    /\ outcome.kind = "raised" /\ outcome.error.msg = MsgTooLarge

-----------------------------------------------------------------------------
(* The messages of internal failures *)

\* the words of the error's message are handed to the caller as they are
Verbatim(underlying, given) ==
    /\ underlying.detail # {}
    /\ underlying.detail \subseteq given.detail

\* C20: when doc.write() fails after open, the error the caller gets says that
\* the file is too large or complex when the underlying message contains
\* "memory", and that processing timed out when it contains "timeout"; in
\* neither case does it carry the underlying message.
C20_MemoryAndTimeoutRewritten ==
    (ppc = "exit" /\ Opened /\ write_outcome.kind = "raised") =>
        /\ outcome.kind = "raised"
        /\ Mentions(write_outcome.error.detail, "memory") =>
               /\ outcome.error.msg = MsgTooLarge
               /\ ~ Verbatim(write_outcome.error, outcome.error)
        /\ (~ Mentions(write_outcome.error.detail, "memory")
                /\ Mentions(write_outcome.error.detail, "timeout")) =>
               /\ outcome.error.msg = MsgTimedOut
               /\ ~ Verbatim(write_outcome.error, outcome.error)

-----------------------------------------------------------------------------
(* The handler's writes on success *)

ResultRowOf(r) ==
    [total_pages |-> r.total_pages,
     total_redactions |-> r.summary.total_redactions,
     redactions_by_reason |-> r.summary.redactions_by_reason,
     confidence_scores |-> r.summary.confidence_scores]

\* C21: in a /process request whose download and process_pdf succeeded, the
\* handler uploads the returned redacted_bytes, then inserts the result row,
\* then the block rows, then the success metrics row; when none of the four
\* fails it responds 200 with the processor's total_pages, and it never responds
\* 200 without the upload and the three writes.
C21_UploadThenRowsThen200 ==
    caller = "handler" =>
        /\ hpc \in {"insert_result", "insert_blocks", "insert_metrics", "respond"} =>
               /\ outcome.kind = "returned"
               /\ uploads = <<outcome.result.redacted_bytes>>
        /\ result_rows # <<>> =>
               /\ uploads # <<>>
               /\ result_rows = <<ResultRowOf(outcome.result)>>
        /\ hpc = "insert_blocks" => Len(result_rows) = 1 /\ block_rows = <<>>
        /\ block_rows # <<>> =>
               /\ result_rows # <<>>
               /\ block_rows = outcome.result.redaction_blocks
        /\ hpc = "insert_metrics" =>
               /\ block_rows = outcome.result.redaction_blocks
               /\ metrics_rows = <<>>
        /\ (metrics_rows # <<>> /\ metrics_rows[1].success = 1) =>
               /\ Len(result_rows) = 1
               /\ block_rows = outcome.result.redaction_blocks
               /\ metrics_rows = <<[success |-> 1,
                                    redaction_count |-> outcome.result.summary.total_redactions,
                                    error_message |-> NoExc]>>
        /\ response.status = 200 =>
               /\ outcome.kind = "returned"
               /\ uploads = <<outcome.result.redacted_bytes>>
               /\ Len(result_rows) = 1
               /\ block_rows = outcome.result.redaction_blocks
               /\ Len(metrics_rows) = 1 /\ metrics_rows[1].success = 1
               /\ response.total_pages = outcome.result.total_pages
        /\ (hpc = "responded" /\ outcome.kind = "returned" /\ uploads # <<>>
                /\ Len(metrics_rows) = 1 /\ metrics_rows[1].success = 1) =>
               response.status = 200

C21_Witness ==
    /\ caller = "handler" /\ hpc = "responded" /\ response.status = 200
    /\ response.total_pages = 2
    /\ Len(uploads) = 1 /\ Len(result_rows) = 1 /\ Len(block_rows) = 3
    /\ Len(metrics_rows) = 1

\* the statements of a call that ran so far are those of a call that stopped
\* before the scan loop: nothing scanned, nothing applied, nothing serialized
StoppedBeforeScan ==
    /\ scan_log = <<>> /\ apply_log = <<>> /\ write_outcome.kind = "none"
    /\ redaction_blocks = <<>>

\* every page was scanned, every page with blocks went through the apply
\* loop, and doc.write() was called
ReachedSerialize ==
    /\ Len(scan_log) = total_pages
    /\ Len(apply_log) = Cardinality(PagesWithBlocks)
    /\ write_outcome.kind \in {"ok", "raised"}

\* C22: once the header check and fitz.open have succeeded and the document
\* has at least one page, process_pdf reaches the apply and the serialize
\* step whatever pages fail in the scan or in the apply loop; every call
\* comes to its end with exactly one outcome, a returned result or a raised
\* error, and after the statement that raised no later statement of the try
\* body has run (only the release of the handle).
C22_ReachesSerializeAndTerminates ==
    /\ [](/\ (ppc = "exit" /\ Opened /\ Len(file_content.pages) >= 1) => ReachedSerialize
          /\ ppc # "exit" => outcome = NoOutcome
          /\ ppc = "exit" =>
                /\ outcome.kind \in {"returned", "raised"}
                /\ outcome.kind = "returned" =>
                      /\ exc = NoExc /\ result.kind = "result"
                      /\ outcome.result = result
                      /\ write_outcome.kind = "ok"
                /\ outcome.kind = "raised" =>
                      /\ exc # NoExc /\ outcome.error = exc
                      /\ result = NoResult
                      /\ write_outcome.kind # "ok"
                      /\ write_outcome.kind = "none" => StoppedBeforeScan
                /\ (~Opened \/ Len(file_content.pages) = 0) => StoppedBeforeScan)
    /\ (ppc \notin {"idle", "exit"}) ~> (ppc = "exit")

C22_Witness ==
    /\ ppc = "exit" /\ Opened /\ total_pages = 3
    /\ scan_log = <<"ok", "failed", "ok">>
    /\ \E i \in 1..Len(apply_log) : apply_log[i][2] = "failed"
    /\ write_outcome.kind = "ok" /\ outcome.kind = "returned"

\* the blocks of the pages 0..n-1 of the document, page after page
RECURSIVE ScannedThrough(_)
ScannedThrough(n) ==
    IF n = 0 THEN <<>> ELSE ScannedThrough(n - 1) \o ScannedBlocks(n - 1)

\* a list of blocks whose page numbers never decrease and lie in 1..pages
InPageOrder(blocks, pages) ==
    /\ \A j \in 1..Len(blocks) : blocks[j].page_number \in 1..pages
    /\ \A j \in 1..Len(blocks) : \A l \in j..Len(blocks) :
          blocks[j].page_number <= blocks[l].page_number

\* C23: the pages are scanned in ascending index order, so the blocks
\* collected so far are those of the pages 0..page_num-1, page after page and
\* each page's in the order its fragments were scanned; in every returned
\* result the page numbers of redaction_blocks never decrease, and each is
\* the 0-based index of the block's page plus 1, within 1..total_pages.
C23_BlocksInPageOrder ==
    (file_content.kind = "file" /\ total_pages > 0) =>
        /\ Len(scan_log) = page_num
        /\ redaction_blocks = ScannedThrough(page_num)
        /\ InPageOrder(redaction_blocks, total_pages)
        /\ outcome.kind = "returned" =>
              /\ outcome.result.total_pages = total_pages
              /\ outcome.result.redaction_blocks = ScannedThrough(total_pages)
              /\ InPageOrder(outcome.result.redaction_blocks, outcome.result.total_pages)

C23_Witness ==
    /\ outcome.kind = "returned" /\ outcome.result.total_pages = 3
    /\ Len(outcome.result.redaction_blocks) = 3
    /\ outcome.result.redaction_blocks[1].page_number = 1
    /\ outcome.result.redaction_blocks[2].page_number = 3
    /\ outcome.result.redaction_blocks[3].page_number = 3
    /\ outcome.result.redaction_blocks[2].reason = "ssn"
    /\ outcome.result.redaction_blocks[3].reason = "account_number"

\* the matches detect_content gives on the k-th span of a page: none is asked
\* for when the span is blank
MatchesOn(page, k) == ScanOnPages[page].matches[k]

\* the number of matches on the spans 1..k of a page
MatchesThrough(page, k) == ScanOnPages[page].through[k]

\* the block is the one of the j-th match on the span: the match's text,
\* category and confidence, the span's bbox as x, y, width and height
IsBlockOfMatch(block, span, item) ==
    /\ block.x = span.bbox[1] /\ block.y = span.bbox[2]
    /\ block.x + block.width = span.bbox[3]
    /\ block.y + block.height = span.bbox[4]
    /\ block.reason = item.reason /\ block.original_text = item.text
    /\ block.confidence = item.confidence

\* C24: for every page whose scan succeeded, the page's blocks are one per
\* match of detect_content per non-blank fragment and none for a blank one:
\* their number is the sum of the matches over the non-blank fragments, and
\* the blocks of the k-th fragment, which follow those of the fragments
\* before it, have the fragment's own bbox as x, y, width and height.
C24_OneBlockPerMatch ==
    (file_content.kind = "file" /\ total_pages > 0) =>
        \A i \in 0..(page_num - 1) :
            LET page == file_content.pages[i + 1]
                blocks == BlocksOfPage(redaction_blocks, i)
            IN  ~ScanOnPages[page].raises =>
                  /\ Len(blocks) = MatchesThrough(page, Len(page.spans))
                  /\ \A k \in 1..Len(page.spans) :
                        /\ IsBlank(page.spans[k].text) =>
                              MatchesThrough(page, k) = MatchesThrough(page, k - 1)
                        /\ \A j \in 1..Len(MatchesOn(page, k)) :
                              IsBlockOfMatch(blocks[MatchesThrough(page, k - 1) + j],
                                             page.spans[k], MatchesOn(page, k)[j])

C24_Witness ==
    /\ ppc = "apply" /\ total_pages = 2
    /\ file_content.pages[1].spans = SpansNoMatch
    /\ file_content.pages[2].spans = SpansMixed
    /\ Len(redaction_blocks) = 2
    /\ redaction_blocks[1].x = 3 /\ redaction_blocks[1].width = 9
    /\ redaction_blocks[2].x = 3 /\ redaction_blocks[2].height = 1

\* the pages the apply loop has been through, in its order
AppliedPages == [j \in 1..Len(apply_log) |-> apply_log[j][1]]

\* C25: _apply_redactions visits the pages that have at least one block and
\* no other, each once; a page's redactions are committed within its own
\* visit, before the next page is touched, so the redactions committed on a
\* page stay in effect whatever happens on the pages after it and are in
\* the serialized output; a page without blocks receives no annotation.
C25_PageByPageCommit ==
    (file_content.kind = "file" /\ total_pages > 0) =>
        /\ \A j \in 1..Len(apply_log) : \A l \in 1..Len(apply_log) :
              AppliedPages[j] = AppliedPages[l] => j = l
        /\ { AppliedPages[j] : j \in 1..Len(apply_log) } \subseteq PagesWithBlocks
        /\ ppc \in AfterApply =>
              { AppliedPages[j] : j \in 1..Len(apply_log) } = PagesWithBlocks
        /\ \A j \in 1..Len(apply_log) :
              IF apply_log[j][2] = "ok"
              THEN /\ redacted[AppliedPages[j]]
                        = RectsOf(BlocksOfPage(redaction_blocks, AppliedPages[j]))
                   /\ annots[AppliedPages[j]] = <<>>
              ELSE redacted[AppliedPages[j]] = <<>>
        /\ \A i \in 0..(total_pages - 1) :
              i \notin { AppliedPages[j] : j \in 1..Len(apply_log) } =>
                  (annots[i] = <<>> /\ redacted[i] = <<>>)
        /\ write_outcome.kind = "ok" =>
              /\ write_outcome.bytes.redacted = redacted
              /\ write_outcome.bytes.annots = annots
              /\ \A j \in 1..Len(apply_log) :
                    apply_log[j][2] = "ok" =>
                        write_outcome.bytes.redacted[AppliedPages[j]]
                            = RectsOf(BlocksOfPage(redaction_blocks, AppliedPages[j]))

C25_Witness ==
    /\ ppc = "exit" /\ outcome.kind = "returned" /\ total_pages = 3
    /\ apply_log = << <<0, "ok">>, <<2, "failed">> >>
    /\ BlocksOfPage(redaction_blocks, 1) = <<>>
    /\ ~ScanRaises(file_content.pages[2])
    /\ Len(outcome.result.redacted_bytes.redacted[0]) = 2
    /\ outcome.result.redacted_bytes.redacted[1] = <<>>
    /\ outcome.result.redacted_bytes.annots[1] = <<>>

-----------------------------------------------------------------------------
(* detect_content: one entry per pattern and match *)

\* where the matches of one pattern lie in the text: <<first, last>> of each,
\* from left to right
RECURSIVE MatchSpans(_, _, _)
MatchSpans(reason, text, pos) ==
    IF pos > Len(text) THEN <<>>
    ELSE LET e == MatchAt(reason, text, pos) IN
         IF e > 0 THEN << <<pos, e - 1>> >> \o MatchSpans(reason, text, e)
         ELSE MatchSpans(reason, text, pos + 1)

\* the entries of one category in a returned list, in the list's order
EntriesOf(items, reason) == SelectSeq(items, LAMBDA item : item.reason = reason)

\* C26: detect_content runs every pattern over the whole text and returns
\* one entry per pattern and match, nothing removed across categories: the
\* entries of a category are the matches of its pattern from left to right,
\* none of them overlapping the one before it; an undashed 9-digit number is
\* returned as ssn and as account_number, an undashed 16-digit number as
\* credit_card and as account_number.
C26_OneEntryPerPatternMatch ==
    (call_fn = "detect_content" /\ call_pc = "done") =>
        /\ call_ret.kind = "returned"
        /\ \A k \in 1..Len(PatternOrder) :
              LET spans == MatchSpans(PatternOrder[k], call_arg, 1)
                  entries == EntriesOf(call_ret.value, PatternOrder[k])
              IN  /\ Len(entries) = Len(spans)
                  /\ \A j \in 1..Len(spans) :
                        /\ entries[j].text = SubSeq(call_arg, spans[j][1], spans[j][2])
                        /\ j > 1 => spans[j - 1][2] < spans[j][1]
        /\ call_arg = TextNine =>
              { <<call_ret.value[i].text, call_ret.value[i].reason>> : i \in 1..Len(call_ret.value) }
                  = { <<TextNine, "ssn">>, <<TextNine, "account_number">> }
        /\ call_arg = CardVisa =>
              { <<call_ret.value[i].text, call_ret.value[i].reason>> : i \in 1..Len(call_ret.value) }
                  = { <<CardVisa, "credit_card">>, <<CardVisa, "account_number">> }

-----------------------------------------------------------------------------
(* _validate_pdf_header *)

\* the content is at least 4 bytes long, begins with %PDF, and the ASCII
\* bytes among its first 20 contain a version 1.0 to 1.7 or 2.0
HasVersionedHeader(bytes) ==
    /\ Len(bytes) >= 4
    /\ \A i \in 1..4 : bytes[i] = PdfSignature[i]
    /\ LET n == IF Len(bytes) < 20 THEN Len(bytes) ELSE 20
           line == SelectSeq(SubSeq(bytes, 1, n), LAMBDA b : b # "xFF")
       IN  \E i \in 1..(Len(line) - 2) :
               /\ line[i + 1] = "."
               /\ \/ line[i] = "1" /\ line[i + 2] \in {"0", "1", "2", "3", "4", "5", "6", "7"}
                  \/ line[i] = "2" /\ line[i + 2] = "0"

\* C27: _validate_pdf_header accepts the content exactly when it is at least
\* 4 bytes long, begins with %PDF and has a version 1.0 to 1.7 or 2.0 among
\* the ASCII bytes of its first 20 bytes; every other content is rejected
\* with the validation error (fitz.open is not reached), and the check
\* itself raises nothing else.
C27_HeaderAcceptedIffVersioned ==
    (file_content.kind = "file" /\ ppc \notin {"idle", "validate"}) =>
        IF HasVersionedHeader(file_content.bytes)
        THEN /\ ppc = "open" \/ open_calls = 1
             /\ exc # Error("ValueError", MsgInvalidHeader, {})
        ELSE /\ open_calls = 0 /\ doc = "none"
             /\ exc = Error("ValueError", MsgInvalidHeader, {})
             /\ ppc \in {"except_value", "finally", "exit"}
             /\ ppc = "exit" => outcome = [kind |-> "raised", error |-> exc]

C27_Witness ==
    /\ ppc = "exit" /\ file_content.kind = "file"
    /\ file_content.bytes = HeaderLateVersion
    /\ open_calls = 0
    /\ outcome = [kind |-> "raised", error |-> Error("ValueError", MsgInvalidHeader, {})]

-----------------------------------------------------------------------------
(* a page whose scan raises *)

\* a span of the page had matches before the span on which the scan raised
MatchedBeforeRaise(page) ==
    \E k \in 1..Len(page.spans) : \E j \in 1..(k - 1) :
        /\ ~IsBlank(page.spans[k].text) /\ Detect(page.spans[k].text).raises
        /\ ~IsBlank(page.spans[j].text) /\ ~Detect(page.spans[j].text).raises
        /\ Detect(page.spans[j].text).items # <<>>

\* C28: a page whose scan raises contributes no block, also when spans of it
\* had given matches before the span on which it raised: redaction_blocks
\* holds, of every page, either nothing or all of the page's blocks, and
\* nothing of a page that is not yet scanned or whose scan raised; the same
\* holds of the blocks of a returned result.
C28_FailedPageGivesNoBlocks ==
    (file_content.kind = "file" /\ total_pages > 0) =>
        /\ \A i \in 0..(total_pages - 1) :
              LET page == file_content.pages[i + 1]
                  blocks == BlocksOfPage(redaction_blocks, i)
              IN  /\ (i >= page_num \/ ScanOnPages[page].raises) => blocks = <<>>
                  /\ blocks # <<>> => Len(blocks) = MatchesThrough(page, Len(page.spans))
        /\ outcome.kind = "returned" =>
              \A n \in 1..Len(outcome.result.redaction_blocks) :
                  ~ScanOnPages[file_content.pages[
                        outcome.result.redaction_blocks[n].page_number]].raises

C28_Witness ==
    /\ outcome.kind = "returned" /\ total_pages = 2
    /\ file_content.pages[1].spans = SpansEmailThenTabCard
    /\ MatchedBeforeRaise(file_content.pages[1])
    /\ scan_log = <<"failed", "ok">>
    /\ Len(outcome.result.redaction_blocks) = 1
    /\ outcome.result.redaction_blocks[1].page_number = 2

-----------------------------------------------------------------------------
(* a page whose annotations cannot all be added *)

\* the visited pages on which add_redact_annot or update raised
PagesFailedAdding ==
    { apply_log[j][1] : j \in { l \in 1..Len(apply_log) :
          file_content.pages[apply_log[l][1] + 1].apply_fault = "last" } }

\* C29: when adding or updating an annotation of a page raises,
\* page.apply_redactions() is not called for the page: none of the page's
\* blocks is applied, the annotations added before the failing one stay
\* pending, and every block of the page is still in redaction_blocks and in
\* the returned result.
C29_PageAllOrNothing ==
    (file_content.kind = "file" /\ total_pages > 0) =>
        \A k \in PagesFailedAdding :
            /\ redacted[k] = <<>>
            /\ Len(annots[k]) < Len(BlocksOfPage(redaction_blocks, k))
            /\ BlocksOfPage(redaction_blocks, k) = ScannedBlocks(k)
            /\ ScannedBlocks(k) # <<>>
            /\ write_outcome.kind = "ok" => write_outcome.bytes.redacted[k] = <<>>
            /\ outcome.kind = "returned" =>
                  /\ BlocksOfPage(outcome.result.redaction_blocks, k) = ScannedBlocks(k)
                  /\ outcome.result.redacted_bytes.redacted[k] = <<>>
                  /\ outcome.result.summary.total_redactions
                        = Len(outcome.result.redaction_blocks)

C29_Witness ==
    /\ outcome.kind = "returned" /\ total_pages = 2
    /\ apply_log = << <<0, "failed">>, <<1, "ok">> >>
    /\ PagesFailedAdding = {0}
    /\ Len(annots[0]) = 1 /\ redacted[0] = <<>>
    /\ Len(BlocksOfPage(outcome.result.redaction_blocks, 0)) = 2
    /\ outcome.result.redacted_bytes.redacted[1] # <<>>

-----------------------------------------------------------------------------
(* the order of the steps on the document handle *)

\* no annotation was added to the document and no redaction applied
Untouched ==
    \A p \in DOMAIN annots : annots[p] = <<>> /\ redacted[p] = <<>>

\* doc.close() was called on the handle
Closed == doc \in {"closed", "close_failed"}

\* C30: within one call of process_pdf the steps on the handle are ordered:
\* no annotation is added before every page is scanned, doc.write() is called
\* after the last page of the apply loop and serializes what the document
\* then holds, the summary is computed from the collected blocks after
\* doc.write() has returned, and after doc.close() nothing touches the
\* handle again.
C30_StepsOnHandleOrdered ==
    /\ [](/\ (ppc \in {"check_pages", "scan", "apply"} \/ page_num < total_pages) =>
               (Untouched /\ apply_log = <<>> /\ write_outcome.kind = "none")
          /\ apply_log # <<>> => Len(scan_log) = total_pages
          /\ write_outcome.kind # "none" =>
               /\ Len(scan_log) = total_pages
               /\ Len(apply_log) = Len(PageKeys(redaction_blocks, {}))
          /\ write_outcome.kind = "ok" =>
               (write_outcome.bytes.annots = annots /\ write_outcome.bytes.redacted = redacted)
          /\ result.kind = "result" =>
               /\ write_outcome.kind = "ok"
               /\ result.redacted_bytes = write_outcome.bytes
               /\ result.redaction_blocks = redaction_blocks
               /\ result.summary.total_redactions = Len(redaction_blocks)
          /\ Closed => (ppc = "exit" /\ close_calls = 1))
    /\ [][run' = run =>
             /\ (ppc # "open" /\ (annots' # annots \/ redacted' # redacted)) =>
                   (ppc = "apply_page" /\ page_num = total_pages /\ ~Closed)
             /\ scan_log' # scan_log =>
                   (ppc \in {"check_pages", "scan"} /\ Untouched /\ ~Closed)
             /\ write_outcome' # write_outcome =>
                   (ppc = "write" /\ apply_idx = Len(apply_order) /\ ~Closed)
             /\ result' # result => (ppc = "summary" /\ write_outcome.kind = "ok")
             /\ Closed =>
                   UNCHANGED <<handleVars, scanVars, applyVars, write_outcome, result>>]_vars

C30_Witness ==
    /\ ppc = "exit" /\ doc = "closed" /\ outcome.kind = "returned"
    /\ total_pages = 3 /\ Len(scan_log) = 3 /\ Len(apply_log) = 2
    /\ ~Untouched
    /\ result.summary.total_redactions = 3

====
